---- MODULE Spec2Model ----
(***************************************************************************)
(* Model of absfs/fstesting: the conformance suite (Suite.Run and its test *)
(* groups, Suite.QuickCheck), the capability presets, the wrapper suite    *)
(* (WrapperSuite.Run), the fuzz drivers, CompareErrors and the package's   *)
(* tests of a store with symlinks (symlink_overlay_test.go).               *)
(*                                                                         *)
(* The suite is the program.  The store it drives (Suite.FS) is outside    *)
(* the repository, so it is modelled as a candidate: a small store whose   *)
(* every operation follows a behaviour record b.  Conforming is the        *)
(* POSIX-like behaviour; the other behaviours are stores that deviate in   *)
(* one or more operations.  Each test case is one action: it picks the     *)
(* candidate's behaviour, issues the calls of the case in source order on  *)
(* a store holding only the per-run root, and derives the verdict exactly  *)
(* as the case's t.Fatalf / t.Error / nil dereferences do.                 *)
(***************************************************************************)
EXTENDS Integers, Sequences, FiniteSets, TLC

VARIABLES
    cfg,          \* the entry point's configuration fields
    root,         \* the per-run root directory: where, how often made, removed
    preset,       \* which constructor produced Suite.Features
    features,     \* Suite.Features
    isSymlinkFS,  \* does Suite.FS implement absfs.SymlinkFileSystem
    pc,           \* where the entry point is: "setup", "gate", "cases", "done",
                  \* "aborted" (Run); "quick", "checked" (QuickCheck); "wsetup",
                  \* "wcases", "wdone" (WrapperSuite.Run); "fuzz", "wfuzz",
                  \* "fcreate", "frename", "fmkdir", "ftraverse", "fuzzed" (fuzz
                  \* drivers); "overlay", "tested"; "compare", "compared"
    grp,          \* index in Groups of the group Run is at
    idx,          \* number of cases of the current group already run
    counter,      \* FuzzReadWrite's iteration counter
    entered,      \* groups for which t.Run was called
    skipped,      \* groups that called t.Skip
    last          \* what the last finished case (or fuzz iteration) observed

vars == <<cfg, root, preset, features, isSymlinkFS, pc, grp, idx, counter, entered, skipped, last>>

-----------------------------------------------------------------------------
(* Bounds *)

\* longest symlink chain a candidate may be asked about
MaxChain == 3
\* size of the candidate's internal chunk (a store may mishandle payloads
\* that cross it); payloads range up to one byte beyond it
ChunkSize == 2

MaxLen == ChunkSize + 1
\* fuzz iterations of one FuzzReadWrite run
MaxIter == 2

\* length of the "large" payload of testDataIntegrity (1<<16 in the code)
LargeLen == 3

\* repetitions of the pattern in testTransformRoundtrip (1000 in the code)
PatternReps == 2

\* most components of a name handed to a path-taking fuzz driver
MaxName == 2

\* fuzz worker processes that run one driver side by side
NumWorkers == 2

\* most calls of the fuzz target in one worker: one past the alphabet
MaxRun == 27

\* how many flag values ForEveryFlag and modes ForEveryPermission pass on
MaxFlags == 2
MaxModes == 1

-----------------------------------------------------------------------------
(* Paths: a path is the sequence of its components below "/" *)

RECURSIVE Clean(_)
\* path.Clean on an absolute path: ".." removes the component before it
Clean(p) ==
    IF p = <<>> THEN <<>>
    ELSE LET init == Clean(SubSeq(p, 1, Len(p) - 1))
             x    == p[Len(p)]
         IN IF x = "." THEN init
            ELSE IF x = ".." THEN
                    (IF init = <<>> THEN <<>> ELSE SubSeq(init, 1, Len(init) - 1))
            ELSE Append(init, x)

\* path.Join(a, b...)
Join(a, b) == Clean(a \o b)

\* path.Dir
Dir(p) == IF p = <<>> THEN <<>> ELSE SubSeq(p, 1, Len(p) - 1)

\* the per-run root, path.Join(testDir, "fstesting_<nanos>")
testDir == <<"tmp", "fstesting">>

\* the working directory of the process (never the per-run root)
Cwd == <<"cwd">>

\* a symlink target string: absolute or relative, kept as written
AbsTarget(p) == [abs |-> TRUE, segs |-> p]
RelTarget(s) == [abs |-> FALSE, segs |-> s]
NoTarget == [abs |-> FALSE, segs |-> <<>>]

-----------------------------------------------------------------------------
(* The candidate store *)

Nil == "nil"

FileNode(d) == [kind |-> "file", data |-> d, target |-> NoTarget]
DirNode == [kind |-> "dir", data |-> <<>>, target |-> NoTarget]
LinkNode(t) == [kind |-> "symlink", data |-> <<>>, target |-> t]

\* the store right after Run created the per-run root
BaseStore == [p \in {testDir} |-> DirNode]

Put(st, p, n) == [q \in (DOMAIN st) \cup {p} |-> IF q = p THEN n ELSE st[q]]
Del(st, p) == [q \in (DOMAIN st) \ {p} |-> st[q]]
Has(st, p) == p \in DOMAIN st

\* The behaviour of a conforming store.
Conforming ==
    [failOp      |-> "none",     \* an operation that always returns an error
     followDepth |-> MaxChain,   \* links a following operation walks through
     loopErr     |-> "ELOOP",    \* error when the walk exceeds followDepth
     brokenErr   |-> "ENOENT",   \* error when the walk ends on a missing path
     relBase     |-> "linkdir",  \* base of a relative target
     cleanDots   |-> TRUE,       \* ".." in a target is resolved
     readlink    |-> "verbatim", \* what Readlink returns
     statFollows |-> TRUE,       \* Stat dereferences links
     lstatFollows|-> FALSE,      \* Lstat dereferences links
     remove      |-> "link",     \* what Remove does to a symlink
     rename      |-> "link",     \* what Rename does to a symlink
     write       |-> "exact",    \* what Write stores
     linkExists  |-> "EEXIST",   \* Symlink onto an existing path
     removeFile  |-> "gone",     \* what Remove does to a file
     renameFile  |-> "move",     \* what Rename does to a file
     removeAll   |-> "tree",     \* what RemoveAll removes
     openWrite   |-> "follow"]   \* what OpenFile(link, O_WRONLY) does to the link

Fails(b, op) == b.failOp = op

\* where the candidate continues from link l with target t
NextPath(b, l, t) ==
    LET base == CASE b.relBase = "linkdir"  -> Dir(l)
                  [] b.relBase = "linkpath" -> l
                  [] OTHER                  -> Cwd
        raw  == IF t.abs THEN t.segs ELSE base \o t.segs
    IN IF b.cleanDots THEN Clean(raw) ELSE raw

RECURSIVE Walk(_, _, _, _)
\* the candidate's resolution for a following operation: the final path, or
\* the error it ends with
Walk(b, st, p, steps) ==
    IF ~Has(st, p) THEN [err |-> b.brokenErr, path |-> p]
    ELSE IF st[p].kind # "symlink" THEN [err |-> Nil, path |-> p]
    ELSE IF steps >= b.followDepth THEN [err |-> b.loopErr, path |-> p]
    ELSE Walk(b, st, NextPath(b, p, st[p].target), steps + 1)

\* os.FileInfo of a node
Info(st, p) ==
    [symlink |-> st[p].kind = "symlink",
     isDir   |-> st[p].kind = "dir",
     size    |-> Len(st[p].data)]

NoInfo == [symlink |-> FALSE, isDir |-> FALSE, size |-> 0]

\* FS.Lstat when it does not follow
LstatNode(b, st, p) ==
    IF ~Has(st, p) THEN [err |-> "ENOENT", info |-> NoInfo]
    ELSE [err |-> Nil, info |-> Info(st, p)]

\* FS.Stat when it follows; a nil error with the link's own info when the
\* candidate gives up on a walk without reporting it (loopErr or brokenErr
\* of "asLink")
StatWalk(b, st, p) ==
    LET w == Walk(b, st, p, 0)
    IN IF w.err = Nil /\ Has(st, w.path) THEN [err |-> Nil, info |-> Info(st, w.path)]
       ELSE IF w.err = Nil THEN [err |-> "ENOENT", info |-> NoInfo]
       ELSE IF w.err = "asLink" THEN LstatNode(b, st, p)
       ELSE [err |-> w.err, info |-> NoInfo]

\* FS.Stat(p)
Stat(b, st, p) ==
    IF Fails(b, "Stat") THEN [err |-> "EIO", info |-> NoInfo]
    ELSE IF b.statFollows THEN StatWalk(b, st, p) ELSE LstatNode(b, st, p)

\* sfs.Lstat(p)
Lstat(b, st, p) ==
    IF Fails(b, "Lstat") THEN [err |-> "EIO", info |-> NoInfo]
    ELSE IF b.lstatFollows THEN StatWalk(b, st, p) ELSE LstatNode(b, st, p)

\* sfs.Readlink(p)
Readlink(b, st, p) ==
    IF Fails(b, "Readlink") THEN [err |-> "EIO", target |-> NoTarget]
    ELSE IF ~Has(st, p) THEN [err |-> "ENOENT", target |-> NoTarget]
    ELSE IF st[p].kind # "symlink" THEN [err |-> "EINVAL", target |-> NoTarget]
    ELSE [err |-> Nil,
          target |-> CASE b.readlink = "verbatim" -> st[p].target
                       [] b.readlink = "clean" ->
                            AbsTarget(NextPath(Conforming, p, st[p].target))
                       [] OTHER ->
                            AbsTarget(Walk(Conforming, st, p, 0).path)]

\* sfs.Symlink(target, link)
Symlink(b, st, t, l) ==
    IF Fails(b, "Symlink") THEN [err |-> "EIO", store |-> st]
    ELSE IF Has(st, l) /\ b.linkExists = "EEXIST" THEN [err |-> "EEXIST", store |-> st]
    ELSE [err |-> Nil, store |-> Put(st, l, LinkNode(t))]

\* FS.Mkdir(p) and FS.MkdirAll(p): parents are not tracked, a directory is
\* its own node
Mkdir(b, st, p) ==
    IF Fails(b, "Mkdir") THEN [err |-> "EIO", store |-> st]
    ELSE IF Has(st, p) THEN [err |-> "EEXIST", store |-> st]
    ELSE [err |-> Nil, store |-> Put(st, p, DirNode)]

MkdirAll(b, st, p) ==
    IF Fails(b, "MkdirAll") THEN [err |-> "EIO", store |-> st]
    ELSE IF Has(st, p) /\ st[p].kind # "dir" THEN [err |-> "ENOTDIR", store |-> st]
    ELSE [err |-> Nil, store |-> Put(st, p, DirNode)]

\* FS.Create(p): the file handle is the path of the node it writes; a nil
\* handle comes with every error
Create(b, st, p) ==
    IF Fails(b, "Create") THEN [err |-> "EIO", store |-> st, h |-> <<>>]
    ELSE LET w == Walk(b, st, p, 0)
         IN IF w.err \notin {Nil, "ENOENT"} THEN [err |-> w.err, store |-> st, h |-> <<>>]
            ELSE IF Has(st, w.path) /\ st[w.path].kind = "dir"
                 THEN [err |-> "EISDIR", store |-> st, h |-> <<>>]
            ELSE [err |-> Nil, store |-> Put(st, w.path, FileNode(<<>>)), h |-> w.path]

Min(a, c) == IF a < c THEN a ELSE c

\* what the candidate keeps of a payload
Stored(b, data) ==
    CASE b.write = "exact"      -> data
      [] b.write = "truncChunk" -> SubSeq(data, 1, Min(Len(data), ChunkSize))
      [] b.write = "shortCount" -> SubSeq(data, 1, Min(Len(data), ChunkSize))
      [] b.write = "padChunk"   ->
            IF Len(data) > ChunkSize THEN data \o <<0>> ELSE data
      [] OTHER                  -> data

\* File.Write(data) on handle h: the count it reports and the store after it
Write(b, st, h, data) ==
    IF Fails(b, "Write") THEN [err |-> "EIO", n |-> 0, store |-> st]
    ELSE IF b.write = "lazy" /\ data = <<>>
         THEN [err |-> Nil, n |-> 0, store |-> Del(st, h)]
    ELSE [err |-> Nil,
          n |-> IF b.write = "shortCount" THEN Len(Stored(b, data)) ELSE Len(data),
          store |-> Put(st, h, FileNode(st[h].data \o Stored(b, data)))]

\* File.Close()
Close(b) == IF Fails(b, "Close") THEN "EIO" ELSE Nil

\* FS.Open(p) and FS.OpenFile(p, O_WRONLY): following operations; the handle
\* is the node the walk ends on
Open(b, st, p) ==
    IF Fails(b, "Open") THEN [err |-> "EIO", h |-> <<>>]
    ELSE LET w == Walk(b, st, p, 0)
         IN IF w.err = Nil THEN [err |-> Nil, h |-> w.path]
            ELSE IF w.err = "asLink" THEN [err |-> "ELOOP", h |-> <<>>]
            ELSE [err |-> w.err, h |-> <<>>]

\* FS.OpenFile(p, O_WRONLY, 0644): the handle is the node the walk ends on; a
\* candidate may turn the link it was opened through into a regular file
OpenFile(b, st, p) ==
    LET f == Open(b, st, p)
    IN IF f.err # Nil THEN [err |-> f.err, h |-> f.h, store |-> st]
       ELSE IF b.openWrite = "materialise" /\ st[p].kind = "symlink"
            THEN [err |-> Nil, h |-> f.h, store |-> Put(st, p, FileNode(<<>>))]
       ELSE [err |-> Nil, h |-> f.h, store |-> st]

\* io.ReadAll(f) on handle h
ReadAll(b, st, h) ==
    IF Fails(b, "Read") THEN [err |-> "EIO", data |-> <<>>]
    ELSE IF ~Has(st, h) THEN [err |-> "ENOENT", data |-> <<>>]
    ELSE IF st[h].kind = "dir" THEN [err |-> "EISDIR", data |-> <<>>]
    ELSE [err |-> Nil, data |-> st[h].data]

\* the node a conforming walk from p ends on
TargetOf(st, p) == Walk(Conforming, st, p, 0).path

\* FS.Remove(p)
Remove(b, st, p) ==
    IF Fails(b, "Remove") THEN [err |-> "EIO", store |-> st]
    ELSE IF ~Has(st, p) THEN [err |-> "ENOENT", store |-> st]
    ELSE IF st[p].kind # "symlink"
         THEN [err |-> Nil,
               store |-> IF b.removeFile = "gone" THEN Del(st, p) ELSE st]
    ELSE LET t == TargetOf(st, p)
         IN [err |-> Nil,
             store |->
               CASE b.remove = "link"   -> Del(st, p)
                 [] b.remove = "target" -> Del(st, t)
                 [] b.remove = "both"   -> Del(Del(st, p), t)
                 [] b.remove = "truncate" ->
                      IF Has(st, t) /\ st[t].kind = "file"
                      THEN Put(Del(st, p), t, FileNode(<<>>)) ELSE Del(st, p)
                 [] OTHER -> st]

\* FS.Rename(old, new)
Rename(b, st, old, new) ==
    IF Fails(b, "Rename") THEN [err |-> "EIO", store |-> st]
    ELSE IF ~Has(st, old) THEN [err |-> "ENOENT", store |-> st]
    ELSE IF st[old].kind # "symlink"
         THEN [err |-> Nil,
               store |->
                 CASE b.renameFile = "move"  -> Put(Del(st, old), new, st[old])
                   [] b.renameFile = "copy"  -> Put(st, new, st[old])
                   [] b.renameFile = "empty" ->
                        Put(Del(st, old), new, FileNode(<<>>))
                   [] OTHER -> st]
    ELSE LET t == TargetOf(st, old)
         IN [err |-> Nil,
             store |->
               CASE b.rename = "link" -> Put(Del(st, old), new, st[old])
                 [] b.rename = "deref" ->
                      IF Has(st, t) THEN Put(Del(st, t), new, st[t]) ELSE st
                 [] b.rename = "copy" -> Put(st, new, st[old])
                 [] b.rename = "asFile" ->
                      IF Has(st, t) THEN Put(Del(st, old), new, st[t])
                      ELSE Put(Del(st, old), new, st[old])
                 [] b.rename = "truncate" ->
                      IF Has(st, t) /\ st[t].kind = "file"
                      THEN Put(Put(Del(st, old), new, st[old]), t, FileNode(<<>>))
                      ELSE Put(Del(st, old), new, st[old])
                 [] OTHER -> st]

\* is path p the path q or a path below it
Under(p, q) == Len(p) >= Len(q) /\ SubSeq(p, 1, Len(q)) = q

\* the store without the nodes at the paths of set ps
Without(st, ps) == [q \in DOMAIN st \ ps |-> st[q]]

\* FS.RemoveAll(p): no error when nothing is there
RemoveAll(b, st, p) ==
    IF Fails(b, "RemoveAll") THEN [err |-> "EIO", store |-> st]
    ELSE [err |-> Nil,
          store |->
            CASE b.removeAll = "tree" ->
                   Without(st, {q \in DOMAIN st : Under(q, p)})
              [] b.removeAll = "below" ->
                   Without(st, {q \in DOMAIN st : Under(q, p) /\ q # p})
              [] OTHER -> st]

\* os.IsNotExist(err)
IsNotExist(err) == err = "ENOENT"

-----------------------------------------------------------------------------
(* Capability sets *)

Flags == {"Symlinks", "HardLinks", "Permissions", "Timestamps",
          "CaseSensitive", "AtomicRename", "SparseFiles", "LargeFiles"}

\* DefaultFeatures()
DefaultFeatures ==
    [Symlinks |-> TRUE, HardLinks |-> TRUE, Permissions |-> TRUE,
     Timestamps |-> TRUE, CaseSensitive |-> TRUE, AtomicRename |-> TRUE,
     SparseFiles |-> TRUE, LargeFiles |-> TRUE]

\* the zero value of Features: unset fields are false
ZeroFeatures == [f \in Flags |-> FALSE]

\* MinimalFeatures() with the CaseSensitive field left out
MinimalFeaturesUnset == ZeroFeatures

\* MinimalFeatures()
MinimalFeatures == [ZeroFeatures EXCEPT !.CaseSensitive = TRUE]

\* Features{...} literals: any choice of the three gating flags, the other
\* flags as in TestExample_LimitedFeatures
LiteralFeatures ==
    {[ZeroFeatures EXCEPT !.Symlinks = s, !.Permissions = p, !.Timestamps = t,
                          !.CaseSensitive = TRUE, !.AtomicRename = TRUE] :
        s \in BOOLEAN, p \in BOOLEAN, t \in BOOLEAN}

\* countFeatures(f)
countFeatures(f) == Cardinality({x \in Flags : f[x]})

-----------------------------------------------------------------------------
(* Suite.Run: groups in source order *)

Groups == <<"FileOperations", "DirectoryOperations", "PathHandling",
            "ErrorSemantics", "NewFilerMethods",
            "Symlinks", "Permissions", "Timestamps">>

GatedGroups == {"Symlinks", "Permissions", "Timestamps"}

\* the gates with the Permissions gate reading the Timestamps flag
GroupGateWrongFlag(f, g) ==
    CASE g = "Symlinks"    -> f.Symlinks
      [] g = "Permissions" -> f.Timestamps
      [] g = "Timestamps"  -> f.Timestamps
      [] OTHER             -> TRUE

\* the condition under which Run calls t.Run for group g
GroupGate(f, g) ==
    CASE g = "Symlinks"    -> f.Symlinks
      [] g = "Permissions" -> f.Permissions
      [] g = "Timestamps"  -> f.Timestamps
      [] OTHER             -> TRUE

\* the cases of each group, in source order
Cases(g) ==
    CASE g = "FileOperations" -> <<"CreateAndRead", "Remove", "Rename">>
      [] g = "DirectoryOperations" -> <<"RemoveAll">>
      [] g = "ErrorSemantics" -> <<"NotExist">>
      [] g = "Symlinks" ->
            <<"Sym/CreateAndRead", "Sym/Lstat", "Sym/RelativeSymlink",
              "Sym/SymlinkToDirectory", "Sym/BrokenSymlink",
              "Sym/SymlinkAlreadyExists", "Sym/CircularSymlinks",
              "Sym/SelfReferenceSymlink", "Sym/TwoNodeCycle",
              "Sym/RemoveSymlink", "Sym/ReadThroughSymlink",
              "Sym/WriteThroughSymlink", "Sym/ChainedSymlinks",
              "Sym/RenameSymlink", "Sym/SameDirRelativeSymlink">>
      [] g = "Permissions" -> <<"Chmod">>
      [] g = "Timestamps" -> <<"Chtimes">>
      [] OTHER -> <<>>

\* the result of a case: its verdict, the store it leaves, what it observed
Result(v, st, o) == [verdict |-> v, store |-> st, obs |-> o]
NoObs == [none |-> TRUE]

\* a case that ran to its end: failed if any t.Error was raised
Verdict(errors) == IF errors THEN "fail" ELSE "pass"

\* file contents; the symlink cases compare them for equality only
Text(s) == <<s>>

-----------------------------------------------------------------------------
(* testSymlinks: one operator per case, calls in source order *)

ReadlinkModes == {"verbatim", "clean", "final"}

\* Symlinks/CreateAndRead
SymCreateAndRead(b) ==
    LET target == Join(testDir, <<"symlink_target.txt">>)
        link   == Join(testDir, <<"symlink_link">>)
        c      == Create(b, BaseStore, target)
    IN IF c.err # Nil THEN Result("panic", c.store, NoObs)
       ELSE LET w == Write(b, c.store, c.h, Text("symlink target content"))
                s == Symlink(b, w.store, AbsTarget(target), link)
                r == Readlink(b, s.store, link)
                o == [passed |-> AbsTarget(target), readlink |-> r]
            IN IF s.err # Nil THEN Result("fatal", s.store, NoObs)
               ELSE IF r.err # Nil THEN Result("fatal", s.store, o)
               ELSE Result(Verdict(r.target # AbsTarget(target)), s.store, o)

\* Symlinks/Lstat
SymLstat(b) ==
    LET target == Join(testDir, <<"lstat_target.txt">>)
        link   == Join(testDir, <<"lstat_link">>)
        c      == Create(b, BaseStore, target)
    IN IF c.err # Nil THEN Result("panic", c.store, NoObs)
       ELSE LET s  == Symlink(b, c.store, AbsTarget(target), link)
                st == Stat(b, s.store, link)
                l  == Lstat(b, s.store, link)
                o  == [stat |-> st, lstat |-> l]
            IN IF st.err # Nil THEN Result("panic", s.store, o)
               ELSE IF l.err # Nil THEN Result("fatal", s.store, o)
               ELSE Result(Verdict(st.info.symlink \/ ~l.info.symlink), s.store, o)

\* RelativeSymlink without the comparison of Readlink's result
SymRelativeSymlinkUncompared(b) ==
    LET subdir == Join(testDir, <<"rel_sub">>)
        target == Join(testDir, <<"rel_target.txt">>)
        link   == Join(subdir, <<"rel_link">>)
        rel    == RelTarget(<<"..", "rel_target.txt">>)
        m      == MkdirAll(b, BaseStore, subdir)
        c      == Create(b, m.store, target)
    IN IF m.err # Nil THEN Result("fatal", m.store, NoObs)
       ELSE IF c.err # Nil THEN Result("panic", c.store, NoObs)
       ELSE LET w == Write(b, c.store, c.h, Text("relative target"))
                s == Symlink(b, w.store, rel, link)
                r == Readlink(b, s.store, link)
                o == [passed |-> rel, readlink |-> r, link |-> link]
            IN IF s.err # Nil THEN Result("fatal", s.store, NoObs)
               ELSE IF r.err # Nil THEN Result("fatal", s.store, o)
               ELSE Result(Verdict(FALSE), s.store, o)

\* Symlinks/RelativeSymlink
SymRelativeSymlink(b) ==
    LET subdir == Join(testDir, <<"rel_sub">>)
        target == Join(testDir, <<"rel_target.txt">>)
        link   == Join(subdir, <<"rel_link">>)
        rel    == RelTarget(<<"..", "rel_target.txt">>)
        m      == MkdirAll(b, BaseStore, subdir)
        c      == Create(b, m.store, target)
    IN IF m.err # Nil THEN Result("fatal", m.store, NoObs)
       ELSE IF c.err # Nil THEN Result("panic", c.store, NoObs)
       ELSE LET w == Write(b, c.store, c.h, Text("relative target"))
                s == Symlink(b, w.store, rel, link)
                r == Readlink(b, s.store, link)
                o == [passed |-> rel, readlink |-> r, link |-> link]
            IN IF s.err # Nil THEN Result("fatal", s.store, NoObs)
               ELSE IF r.err # Nil THEN Result("fatal", s.store, o)
               ELSE Result(Verdict(r.target # rel), s.store, o)

\* Symlinks/SymlinkToDirectory
SymSymlinkToDirectory(b) ==
    LET targetDir == Join(testDir, <<"link_target_dir">>)
        link      == Join(testDir, <<"dir_link">>)
        m         == Mkdir(b, BaseStore, targetDir)
        c         == Create(b, m.store, Join(targetDir, <<"file.txt">>))
    IN IF m.err # Nil THEN Result("fatal", m.store, NoObs)
       ELSE IF c.err # Nil THEN Result("panic", c.store, NoObs)
       ELSE LET w  == Write(b, c.store, c.h, Text("content"))
                s  == Symlink(b, w.store, AbsTarget(targetDir), link)
                st == Stat(b, s.store, link)
                l  == Lstat(b, s.store, link)
                o  == [stat |-> st, lstat |-> l, chain |-> 1]
            IN IF s.err # Nil THEN Result("fatal", s.store, NoObs)
               ELSE IF st.err # Nil THEN Result("fatal", s.store, o)
               ELSE IF l.err # Nil THEN Result("fatal", s.store, o)
               ELSE Result(Verdict(~st.info.isDir \/ ~l.info.symlink), s.store, o)

\* BrokenSymlink without the check that Stat fails
SymBrokenSymlinkNoStat(b) ==
    LET nonexistent == Join(testDir, <<"nonexistent_target">>)
        link        == Join(testDir, <<"broken_link">>)
        s  == Symlink(b, BaseStore, AbsTarget(nonexistent), link)
        r  == Readlink(b, s.store, link)
        l  == Lstat(b, s.store, link)
        st == Stat(b, s.store, link)
        o  == [passed |-> AbsTarget(nonexistent), readlink |-> r,
               lstat |-> l, stat |-> st]
    IN IF s.err # Nil THEN Result("fatal", s.store, NoObs)
       ELSE IF r.err # Nil THEN Result("fatal", s.store, o)
       ELSE IF l.err # Nil THEN Result("fatal", s.store, o)
       ELSE Result(Verdict(r.target # AbsTarget(nonexistent)
                           \/ ~l.info.symlink), s.store, o)

\* Symlinks/BrokenSymlink
SymBrokenSymlink(b) ==
    LET nonexistent == Join(testDir, <<"nonexistent_target">>)
        link        == Join(testDir, <<"broken_link">>)
        s  == Symlink(b, BaseStore, AbsTarget(nonexistent), link)
        r  == Readlink(b, s.store, link)
        l  == Lstat(b, s.store, link)
        st == Stat(b, s.store, link)
        o  == [passed |-> AbsTarget(nonexistent), readlink |-> r,
               lstat |-> l, stat |-> st]
    IN IF s.err # Nil THEN Result("fatal", s.store, NoObs)
       ELSE IF r.err # Nil THEN Result("fatal", s.store, o)
       ELSE IF l.err # Nil THEN Result("fatal", s.store, o)
       ELSE Result(Verdict(r.target # AbsTarget(nonexistent)
                           \/ ~l.info.symlink \/ st.err = Nil), s.store, o)

\* Symlinks/SymlinkAlreadyExists
SymSymlinkAlreadyExists(b) ==
    LET target == Join(testDir, <<"exists_target.txt">>)
        link   == Join(testDir, <<"exists_link">>)
        c      == Create(b, BaseStore, target)
    IN IF c.err # Nil THEN Result("panic", c.store, NoObs)
       ELSE LET s1 == Symlink(b, c.store, AbsTarget(target), link)
                s2 == Symlink(b, s1.store, AbsTarget(target), link)
                o  == [second |-> s2.err]
            IN IF s1.err # Nil THEN Result("fatal", s1.store, NoObs)
               ELSE Result(Verdict(s2.err = Nil), s2.store, o)

\* Symlinks/CircularSymlinks
SymCircularSymlinks(b) ==
    LET circDir == Join(testDir, <<"circular">>)
        oneDir  == Join(circDir, <<"one">>)
        twoDir  == Join(oneDir, <<"two">>)
        link    == Join(twoDir, <<"three">>)
        m == MkdirAll(b, BaseStore, twoDir)
        s == Symlink(b, m.store, AbsTarget(oneDir), link)
        l == Lstat(b, s.store, link)
        r == Readlink(b, s.store, link)
        o == [passed |-> AbsTarget(oneDir), readlink |-> r, lstat |-> l]
    IN IF m.err # Nil THEN Result("fatal", m.store, NoObs)
       ELSE IF s.err # Nil THEN Result("fatal", s.store, NoObs)
       ELSE IF l.err # Nil THEN Result("fatal", s.store, NoObs)
       ELSE IF r.err # Nil THEN Result("fatal", s.store, NoObs)
       ELSE Result(Verdict(~l.info.symlink \/ r.target # AbsTarget(oneDir)),
                   s.store, o)

\* Symlinks/SelfReferenceSymlink
SymSelfReferenceSymlink(b) ==
    LET link == Join(testDir, <<"self_ref">>)
        s  == Symlink(b, BaseStore, AbsTarget(link), link)
        l  == Lstat(b, s.store, link)
        st == Stat(b, s.store, link)
        o  == [lstat |-> l, stat |-> st]
    IN IF s.err # Nil THEN Result("fatal", s.store, NoObs)
       ELSE IF l.err # Nil THEN Result("fatal", s.store, NoObs)
       ELSE Result(Verdict(~l.info.symlink \/ st.err = Nil), s.store, o)

\* Symlinks/TwoNodeCycle
SymTwoNodeCycle(b) ==
    LET linkA == Join(testDir, <<"cycle_a">>)
        linkB == Join(testDir, <<"cycle_b">>)
        s1 == Symlink(b, BaseStore, AbsTarget(linkB), linkA)
        s2 == Symlink(b, s1.store, AbsTarget(linkA), linkB)
        l  == Lstat(b, s2.store, linkA)
        st == Stat(b, s2.store, linkA)
        o  == [lstat |-> l, stat |-> st]
    IN IF s1.err # Nil THEN Result("fatal", s1.store, NoObs)
       ELSE IF s2.err # Nil THEN Result("fatal", s2.store, NoObs)
       ELSE IF l.err # Nil THEN Result("fatal", s2.store, NoObs)
       ELSE Result(Verdict(~l.info.symlink \/ st.err = Nil), s2.store, o)

\* RemoveSymlink without the check that the target still exists
SymRemoveSymlinkNoTargetCheck(b) ==
    LET target == Join(testDir, <<"remove_target.txt">>)
        link   == Join(testDir, <<"remove_link">>)
        c      == Create(b, BaseStore, target)
    IN IF c.err # Nil THEN Result("panic", c.store, NoObs)
       ELSE LET w  == Write(b, c.store, c.h, Text("should not be deleted"))
                s  == Symlink(b, w.store, AbsTarget(target), link)
                rm == Remove(b, s.store, link)
                l  == Lstat(b, rm.store, link)
                st == Stat(b, rm.store, target)
                o  == [before |-> s.store, lstat |-> l, stat |-> st]
            IN IF s.err # Nil THEN Result("fatal", s.store, NoObs)
               ELSE IF rm.err # Nil THEN Result("fatal", rm.store, NoObs)
               ELSE Result(Verdict(l.err = Nil), rm.store, o)

\* Symlinks/RemoveSymlink
SymRemoveSymlink(b) ==
    LET target == Join(testDir, <<"remove_target.txt">>)
        link   == Join(testDir, <<"remove_link">>)
        c      == Create(b, BaseStore, target)
    IN IF c.err # Nil THEN Result("panic", c.store, NoObs)
       ELSE LET w  == Write(b, c.store, c.h, Text("should not be deleted"))
                s  == Symlink(b, w.store, AbsTarget(target), link)
                rm == Remove(b, s.store, link)
                l  == Lstat(b, rm.store, link)
                st == Stat(b, rm.store, target)
                o  == [before |-> s.store, lstat |-> l, stat |-> st]
            IN IF s.err # Nil THEN Result("fatal", s.store, NoObs)
               ELSE IF rm.err # Nil THEN Result("fatal", rm.store, NoObs)
               ELSE Result(Verdict(l.err = Nil \/ st.err # Nil), rm.store, o)

\* Symlinks/ReadThroughSymlink
SymReadThroughSymlink(b) ==
    LET target  == Join(testDir, <<"read_through_target.txt">>)
        link    == Join(testDir, <<"read_through_link">>)
        content == Text("content read through symlink")
        c       == Create(b, BaseStore, target)
    IN IF c.err # Nil THEN Result("panic", c.store, NoObs)
       ELSE LET w == Write(b, c.store, c.h, content)
                s == Symlink(b, w.store, AbsTarget(target), link)
                f == Open(b, s.store, link)
                r == ReadAll(b, s.store, f.h)
                o == [open |-> f, read |-> r, content |-> content, chain |-> 1]
            IN IF s.err # Nil THEN Result("fatal", s.store, NoObs)
               ELSE IF f.err # Nil THEN Result("fatal", s.store, NoObs)
               ELSE IF r.err # Nil THEN Result("fatal", s.store, NoObs)
               ELSE Result(Verdict(r.data # content), s.store, o)

\* WriteThroughSymlink without the comparison of the target's content
SymWriteThroughSymlinkNoCompare(b) ==
    LET target  == Join(testDir, <<"write_through_target.txt">>)
        link    == Join(testDir, <<"write_through_link">>)
        content == Text("written through symlink")
        c       == Create(b, BaseStore, target)
    IN IF c.err # Nil THEN Result("panic", c.store, NoObs)
       ELSE LET s == Symlink(b, c.store, AbsTarget(target), link)
                f == OpenFile(b, s.store, link)
            IN IF s.err # Nil THEN Result("fatal", s.store, NoObs)
               ELSE IF f.err # Nil THEN Result("fatal", s.store, NoObs)
               ELSE LET w == Write(b, f.store, f.h, content)
                        g == Open(b, w.store, target)
                        r == ReadAll(b, w.store, g.h)
                        o == [read |-> r, content |-> content, link |-> link]
                    IN IF g.err # Nil THEN Result("panic", w.store, NoObs)
                       ELSE Result("pass", w.store, o)

\* Symlinks/WriteThroughSymlink
SymWriteThroughSymlink(b) ==
    LET target  == Join(testDir, <<"write_through_target.txt">>)
        link    == Join(testDir, <<"write_through_link">>)
        content == Text("written through symlink")
        c       == Create(b, BaseStore, target)
    IN IF c.err # Nil THEN Result("panic", c.store, NoObs)
       ELSE LET s == Symlink(b, c.store, AbsTarget(target), link)
                f == OpenFile(b, s.store, link)
            IN IF s.err # Nil THEN Result("fatal", s.store, NoObs)
               ELSE IF f.err # Nil THEN Result("fatal", s.store, NoObs)
               ELSE LET w == Write(b, f.store, f.h, content)
                        g == Open(b, w.store, target)
                        r == ReadAll(b, w.store, g.h)
                        o == [read |-> r, content |-> content, link |-> link]
                    IN IF g.err # Nil THEN Result("panic", w.store, NoObs)
                       ELSE Result(Verdict(r.data # content), w.store, o)

\* ChainedSymlinks with the following checks made on link1, the inner link
SymChainedSymlinksInnerLink(b) ==
    LET target  == Join(testDir, <<"chain_target.txt">>)
        link1   == Join(testDir, <<"chain_link1">>)
        link2   == Join(testDir, <<"chain_link2">>)
        content == Text("chained symlink content")
        c       == Create(b, BaseStore, target)
    IN IF c.err # Nil THEN Result("panic", c.store, NoObs)
       ELSE LET w  == Write(b, c.store, c.h, content)
                s1 == Symlink(b, w.store, AbsTarget(target), link1)
                s2 == Symlink(b, s1.store, AbsTarget(link1), link2)
                l  == Lstat(b, s2.store, link2)
                r  == Readlink(b, s2.store, link2)
                st == Stat(b, s2.store, link1)
                f  == Open(b, s2.store, link1)
                d  == ReadAll(b, s2.store, f.h)
                o  == [passed |-> AbsTarget(link1), readlink |-> r, lstat |-> l,
                       stat |-> st, open |-> f, read |-> d, content |-> content,
                       chain |-> 2]
            IN IF s1.err # Nil THEN Result("fatal", s1.store, NoObs)
               ELSE IF s2.err # Nil THEN Result("fatal", s2.store, NoObs)
               ELSE IF l.err # Nil THEN Result("fatal", s2.store, NoObs)
               ELSE IF r.err # Nil THEN Result("fatal", s2.store, NoObs)
               ELSE IF st.err # Nil THEN Result("fatal", s2.store, NoObs)
               ELSE IF f.err # Nil THEN Result("panic", s2.store, NoObs)
               ELSE Result(Verdict(~l.info.symlink \/ r.target # AbsTarget(link1)
                                   \/ st.info.symlink \/ d.data # content),
                           s2.store, o)

\* Symlinks/ChainedSymlinks
SymChainedSymlinks(b) ==
    LET target  == Join(testDir, <<"chain_target.txt">>)
        link1   == Join(testDir, <<"chain_link1">>)
        link2   == Join(testDir, <<"chain_link2">>)
        content == Text("chained symlink content")
        c       == Create(b, BaseStore, target)
    IN IF c.err # Nil THEN Result("panic", c.store, NoObs)
       ELSE LET w  == Write(b, c.store, c.h, content)
                s1 == Symlink(b, w.store, AbsTarget(target), link1)
                s2 == Symlink(b, s1.store, AbsTarget(link1), link2)
                l  == Lstat(b, s2.store, link2)
                r  == Readlink(b, s2.store, link2)
                st == Stat(b, s2.store, link2)
                f  == Open(b, s2.store, link2)
                d  == ReadAll(b, s2.store, f.h)
                o  == [passed |-> AbsTarget(link1), readlink |-> r, lstat |-> l,
                       stat |-> st, open |-> f, read |-> d, content |-> content,
                       chain |-> 2]
            IN IF s1.err # Nil THEN Result("fatal", s1.store, NoObs)
               ELSE IF s2.err # Nil THEN Result("fatal", s2.store, NoObs)
               ELSE IF l.err # Nil THEN Result("fatal", s2.store, NoObs)
               ELSE IF r.err # Nil THEN Result("fatal", s2.store, NoObs)
               ELSE IF st.err # Nil THEN Result("fatal", s2.store, NoObs)
               ELSE IF f.err # Nil THEN Result("panic", s2.store, NoObs)
               ELSE Result(Verdict(~l.info.symlink \/ r.target # AbsTarget(link1)
                                   \/ st.info.symlink \/ d.data # content),
                           s2.store, o)

\* RenameSymlink without the check that the old path is gone
SymRenameSymlinkNoOldCheck(b) ==
    LET target  == Join(testDir, <<"rename_sym_target.txt">>)
        link    == Join(testDir, <<"rename_sym_link">>)
        newLink == Join(testDir, <<"rename_sym_link_new">>)
        c       == Create(b, BaseStore, target)
    IN IF c.err # Nil THEN Result("panic", c.store, NoObs)
       ELSE LET w  == Write(b, c.store, c.h, Text("rename symlink target"))
                s  == Symlink(b, w.store, AbsTarget(target), link)
                rn == Rename(b, s.store, link, newLink)
                lo == Lstat(b, rn.store, link)
                ln == Lstat(b, rn.store, newLink)
                st == Stat(b, rn.store, target)
                o  == [before |-> s.store, lstatOld |-> lo, lstatNew |-> ln,
                       stat |-> st]
            IN IF s.err # Nil THEN Result("fatal", s.store, NoObs)
               ELSE IF rn.err # Nil THEN Result("fatal", rn.store, NoObs)
               ELSE IF ln.err # Nil THEN Result("fatal", rn.store, NoObs)
               ELSE Result(Verdict(~ln.info.symlink \/ st.err # Nil),
                           rn.store, o)

\* Symlinks/RenameSymlink
SymRenameSymlink(b) ==
    LET target  == Join(testDir, <<"rename_sym_target.txt">>)
        link    == Join(testDir, <<"rename_sym_link">>)
        newLink == Join(testDir, <<"rename_sym_link_new">>)
        c       == Create(b, BaseStore, target)
    IN IF c.err # Nil THEN Result("panic", c.store, NoObs)
       ELSE LET w  == Write(b, c.store, c.h, Text("rename symlink target"))
                s  == Symlink(b, w.store, AbsTarget(target), link)
                rn == Rename(b, s.store, link, newLink)
                lo == Lstat(b, rn.store, link)
                ln == Lstat(b, rn.store, newLink)
                st == Stat(b, rn.store, target)
                o  == [before |-> s.store, lstatOld |-> lo, lstatNew |-> ln,
                       stat |-> st]
            IN IF s.err # Nil THEN Result("fatal", s.store, NoObs)
               ELSE IF rn.err # Nil THEN Result("fatal", rn.store, NoObs)
               ELSE IF ln.err # Nil THEN Result("fatal", rn.store, NoObs)
               ELSE Result(Verdict(lo.err = Nil \/ ~ln.info.symlink \/ st.err # Nil),
                           rn.store, o)

\* SameDirRelativeSymlink with the result of Stat ignored
SymSameDirRelativeSymlinkNoStat(b) ==
    LET target == Join(testDir, <<"same_dir_target.txt">>)
        link   == Join(testDir, <<"same_dir_link">>)
        rel    == RelTarget(<<"same_dir_target.txt">>)
        c      == Create(b, BaseStore, target)
    IN IF c.err # Nil THEN Result("panic", c.store, NoObs)
       ELSE LET w  == Write(b, c.store, c.h, Text("same dir target"))
                s  == Symlink(b, w.store, rel, link)
                r  == Readlink(b, s.store, link)
                st == Stat(b, s.store, link)
                o  == [passed |-> rel, readlink |-> r, stat |-> st, link |-> link]
            IN IF s.err # Nil THEN Result("fatal", s.store, NoObs)
               ELSE IF r.err # Nil THEN Result("fatal", s.store, NoObs)
               ELSE Result(Verdict(r.target # rel), s.store, o)

\* Symlinks/SameDirRelativeSymlink
SymSameDirRelativeSymlink(b) ==
    LET target == Join(testDir, <<"same_dir_target.txt">>)
        link   == Join(testDir, <<"same_dir_link">>)
        rel    == RelTarget(<<"same_dir_target.txt">>)
        c      == Create(b, BaseStore, target)
    IN IF c.err # Nil THEN Result("panic", c.store, NoObs)
       ELSE LET w  == Write(b, c.store, c.h, Text("same dir target"))
                s  == Symlink(b, w.store, rel, link)
                r  == Readlink(b, s.store, link)
                st == Stat(b, s.store, link)
                o  == [passed |-> rel, readlink |-> r, stat |-> st, link |-> link]
            IN IF s.err # Nil THEN Result("fatal", s.store, NoObs)
               ELSE IF r.err # Nil THEN Result("fatal", s.store, NoObs)
               ELSE IF st.err # Nil THEN Result("fatal", s.store, NoObs)
               ELSE Result(Verdict(r.target # rel \/ st.info.isDir), s.store, o)

-----------------------------------------------------------------------------
(* symlink_overlay_test.go: the package's own tests of a store with        *)
(* symlinks, each on a fresh store holding only "/"                        *)

FreshStore == [p \in {<<>>} |-> DirNode]

\* FS.ReadFile(p): Open, ReadAll, Close
ReadFile(b, st, p) ==
    LET f == Open(b, st, p)
    IN IF f.err # Nil THEN [err |-> f.err, data |-> <<>>]
       ELSE ReadAll(b, st, f.h)

\* []byte("hello world")
HelloWorldText == <<104, 101, 108, 108, 111, 32, 119, 111, 114, 108, 100>>

\* TestExtendSymlinkFiler_Basic
OverlayBasic(b) ==
    LET target == <<"target.txt">>
        link   == <<"link">>
        c      == Create(b, FreshStore, target)
    IN IF c.err # Nil THEN Result("fatal", c.store, NoObs)
       ELSE LET w  == Write(b, c.store, c.h, HelloWorldText)
                s  == Symlink(b, w.store, AbsTarget(target), link)
                r  == ReadFile(b, s.store, link)
                rl == Readlink(b, s.store, link)
                l  == Lstat(b, s.store, link)
                st == Stat(b, s.store, link)
                o  == [read |-> r, content |-> HelloWorldText, readlink |-> rl,
                       lstat |-> l, stat |-> st, link |-> link]
            IN IF s.err # Nil THEN Result("fatal", s.store, NoObs)
               ELSE IF r.err # Nil THEN Result("fatal", s.store, NoObs)
               ELSE IF rl.err # Nil THEN Result("fatal", s.store, NoObs)
               ELSE IF l.err # Nil THEN Result("fatal", s.store, NoObs)
               ELSE IF st.err # Nil THEN Result("fatal", s.store, NoObs)
               ELSE Result(Verdict(\/ r.data # HelloWorldText
                                   \/ rl.target # AbsTarget(target)
                                   \/ ~l.info.symlink
                                   \/ st.info.size # 11),
                           s.store, o)

\* TestExtendSymlinkFiler_RelativeSymlink
OverlayRelativeSymlink(b) ==
    LET link == <<"a", "b", "link">>
        rel  == RelTarget(<<"..", "target.txt">>)
        m    == MkdirAll(b, FreshStore, <<"a", "b">>)
        c    == Create(b, m.store, <<"a", "target.txt">>)
    IN IF c.err # Nil THEN Result("panic", c.store, NoObs)
       ELSE LET w == Write(b, c.store, c.h, Text("content"))
                s == Symlink(b, w.store, rel, link)
                r == ReadFile(b, s.store, link)
                o == [passed |-> rel, link |-> link, read |-> r,
                      content |-> Text("content")]
            IN IF s.err # Nil THEN Result("fatal", s.store, NoObs)
               ELSE IF r.err # Nil THEN Result("fatal", s.store, NoObs)
               ELSE Result(Verdict(r.data # Text("content")), s.store, o)

\* TestExtendSymlinkFiler_BrokenSymlink
OverlayBrokenSymlink(b) ==
    LET link == <<"broken_link">>
        s    == Symlink(b, FreshStore, AbsTarget(<<"nonexistent">>), link)
        l    == Lstat(b, s.store, link)
        st   == Stat(b, s.store, link)
        o    == [lstat |-> l, stat |-> st]
    IN IF s.err # Nil THEN Result("fatal", s.store, NoObs)
       ELSE IF l.err # Nil THEN Result("fatal", s.store, NoObs)
       ELSE Result(Verdict(~l.info.symlink \/ st.err = Nil), s.store, o)

\* TestExtendSymlinkFiler_CircularSymlink
OverlayCircularSymlink(b) ==
    LET s1 == Symlink(b, FreshStore, AbsTarget(<<"b">>), <<"a">>)
        s2 == Symlink(b, s1.store, AbsTarget(<<"a">>), <<"b">>)
        st == Stat(b, s2.store, <<"a">>)
    IN Result(Verdict(st.err = Nil), s2.store, [stat |-> st])

\* TestExtendSymlinkFiler_RemoveSymlink
OverlayRemoveSymlink(b) ==
    LET target == <<"target.txt">>
        link   == <<"link">>
        c      == Create(b, FreshStore, target)
    IN IF c.err # Nil THEN Result("panic", c.store, NoObs)
       ELSE LET w  == Write(b, c.store, c.h, Text("keep me"))
                s  == Symlink(b, w.store, AbsTarget(target), link)
                rm == Remove(b, s.store, link)
                r  == ReadFile(b, rm.store, target)
                o  == [before |-> s.store, read |-> r, content |-> Text("keep me")]
            IN IF rm.err # Nil THEN Result("fatal", rm.store, NoObs)
               ELSE IF r.err # Nil THEN Result("fatal", rm.store, NoObs)
               ELSE Result(Verdict(r.data # Text("keep me")), rm.store, o)

\* the modelled tests of symlink_overlay_test.go, in file order
OverlayTests == <<"Overlay/Basic", "Overlay/RelativeSymlink", "Overlay/BrokenSymlink",
                  "Overlay/CircularSymlink", "Overlay/RemoveSymlink">>

-----------------------------------------------------------------------------
(* testFileOperations/CreateAndRead and FuzzReadWrite *)

\* []byte("hello, world")
HelloWorld == <<104, 101, 108, 108, 111, 44, 32, 119, 111, 114, 108, 100>>

\* FileOperations/CreateAndRead
FileCreateAndRead(b) ==
    LET filePath == Join(testDir, <<"create_test.txt">>)
        content  == HelloWorld
        c        == Create(b, BaseStore, filePath)
    IN IF c.err # Nil THEN Result("fatal", c.store, NoObs)
       ELSE LET w  == Write(b, c.store, c.h, content)
                cl == Close(b)
                f  == Open(b, w.store, filePath)
                r  == ReadAll(b, w.store, f.h)
                o  == [content |-> content, n |-> w.n, read |-> r]
            IN IF w.err # Nil THEN Result("fatal", w.store, NoObs)
               ELSE IF cl # Nil THEN Result("fatal", w.store, NoObs)
               ELSE IF f.err # Nil THEN Result("fatal", w.store, NoObs)
               ELSE IF r.err # Nil THEN Result("fatal", w.store, NoObs)
               ELSE Result(Verdict(w.n # Len(content) \/ r.data # content),
                           w.store, o)

Letters == <<"a", "b", "c", "d", "e", "f", "g", "h", "i", "j", "k", "l", "m",
             "n", "o", "p", "q", "r", "s", "t", "u", "v", "w", "x", "y", "z">>

\* FuzzFile with the counter taken modulo half the alphabet
FuzzFileHalfAlphabet(c) == Join(testDir, <<"fuzz_rw", Letters[(c % 13) + 1]>>)

\* path.Join(testDir, "fuzz_rw", string(rune('a'+counter%26))+".bin")
FuzzFile(c) == Join(testDir, <<"fuzz_rw", Letters[(c % 26) + 1]>>)

\* the fuzz body without the comparison of the bytes read back
FuzzReadWriteBodyNoCompare(b, c, data) ==
    LET filePath == FuzzFile(c)
        m        == MkdirAll(b, BaseStore, Dir(filePath))
        cr       == Create(b, m.store, filePath)
    IN IF cr.err # Nil THEN Result("fatal", cr.store, NoObs)
       ELSE LET w  == Write(b, cr.store, cr.h, data)
                f  == Open(b, w.store, filePath)
                r  == ReadAll(b, w.store, f.h)
                o  == [content |-> data, n |-> w.n, read |-> r]
            IN IF w.err # Nil
               THEN Result("pass", Remove(b, w.store, filePath).store, NoObs)
               ELSE IF f.err # Nil THEN Result("fatal", w.store, NoObs)
               ELSE IF r.err # Nil THEN Result("fatal", w.store, NoObs)
               ELSE Result(Verdict(w.n # Len(data)),
                           Remove(b, w.store, filePath).store, o)

\* one call of the function FuzzReadWrite hands to f.Fuzz, counter being the
\* value after counter++
FuzzReadWriteBody(b, c, data) ==
    LET filePath == FuzzFile(c)
        m        == MkdirAll(b, BaseStore, Dir(filePath))
        cr       == Create(b, m.store, filePath)
    IN IF cr.err # Nil THEN Result("fatal", cr.store, NoObs)
       ELSE LET w  == Write(b, cr.store, cr.h, data)
                f  == Open(b, w.store, filePath)
                r  == ReadAll(b, w.store, f.h)
                o  == [content |-> data, n |-> w.n, read |-> r]
            IN IF w.err # Nil
               THEN Result("pass", Remove(b, w.store, filePath).store, NoObs)
               ELSE IF f.err # Nil THEN Result("fatal", w.store, NoObs)
               ELSE IF r.err # Nil THEN Result("fatal", w.store, NoObs)
               ELSE Result(Verdict(w.n # Len(data) \/ r.data # data),
                           Remove(b, w.store, filePath).store, o)

Byte == {0, 255}

RECURSIVE SeqsUpTo(_)
SeqsUpTo(n) ==
    IF n = 0 THEN {<<>>}
    ELSE LET shorter == SeqsUpTo(n - 1)
         IN shorter \cup {Append(q, x) : q \in {t \in shorter : Len(t) = n - 1},
                                           x \in Byte}

\* the fuzz inputs: every payload up to one byte past a chunk
Payloads == SeqsUpTo(MaxLen)

-----------------------------------------------------------------------------
(* testPermissions and testTimestamps.  The store answers are inputs:      *)
(* createErr, the error of Chmod/Chtimes, the error of Stat, and what Stat  *)
(* reports.                                                                 *)

\* Permissions/Chmod; perm is info.Mode().Perm()
PermChmod(createErr, chmodErr, statErr, perm) ==
    IF createErr # Nil THEN "panic"
    ELSE IF chmodErr # Nil THEN "fatal"
    ELSE IF statErr # Nil THEN "panic"
    ELSE Verdict(perm # 384)

\* Timestamps/Chtimes; diff is got.Sub(mtime) in milliseconds
TimeChtimes(createErr, chtimesErr, statErr, diff) ==
    IF createErr # Nil THEN "panic"
    ELSE IF chtimesErr # Nil THEN "fatal"
    ELSE IF statErr # Nil THEN "panic"
    ELSE Verdict(diff < -1000 \/ diff > 1000)

-----------------------------------------------------------------------------
(* Configuration and the per-run root *)

\* FS.TempDir()
TempDir == <<"tmp">>
\* a Suite.TestDir that is set
CustomDir == <<"custom">>

\* Suite.TestDir ("" or a directory) and Suite.KeepTestDir; the fields of
\* WrapperSuite are false outside WrapperSuite.Run
NoConfig == [TestDir |-> <<>>, KeepTestDir |-> FALSE,
             ReadOnly |-> FALSE, TransformsData |-> FALSE, Skips |-> {}]
Configs == {[NoConfig EXCEPT !.TestDir = d, !.KeepTestDir = k] :
               d \in {<<>>, CustomDir}, k \in BOOLEAN}

\* strings.ToLower on the names used here
ToLower(name) ==
    CASE name \in {"Symlinks", "SYMLINKS"}       -> "symlinks"
      [] name \in {"Permissions", "PERMISSIONS"} -> "permissions"
      [] name \in {"Timestamps", "TIMESTAMPS"}   -> "timestamps"
      [] name \in {"FileOperations"}             -> "fileoperations"
      [] OTHER                                   -> name

\* the skips arguments RunWithSkips is called with
SkipLists == {{"SYMLINKS"}, {"FileOperations", "Timestamps"}}
SkipConfigs == {[NoConfig EXCEPT !.Skips = s] : s \in SkipLists}

\* the skipMap RunWithSkips builds from its arguments
SkipMap(skips) == {ToLower(skip) : skip \in skips}

\* WrapperSuite.ReadOnly and WrapperSuite.TransformsData
WrapperConfigs == {[NoConfig EXCEPT !.ReadOnly = r, !.TransformsData = t] :
                      r \in BOOLEAN, t \in BOOLEAN}

\* Run's testDir: under TestDir, or under FS.TempDir() when TestDir is ""
RunRoot(c) ==
    Join(IF c.TestDir = <<>> THEN TempDir ELSE c.TestDir, <<"fstesting">>)

NoRoot == [path |-> <<>>, made |-> 0, removed |-> FALSE]

-----------------------------------------------------------------------------
(* WrapperSuite: the wrapper the Factory returns is outside the repository, *)
(* so it is a candidate too: a layer over a conforming base store that      *)
(* keeps encoded bytes in the base and follows a behaviour record w         *)

\* the wrapper that delegates every call unchanged
Transparent ==
    [failOp |-> "none",     \* an operation that always fails, or "none"
     codec  |-> "identity", \* how file bytes are kept in the base
     size   |-> "plain",    \* what Stat reports as size: plain or raw length
     count  |-> "plain",    \* what Write reports: plain or raw length
     create |-> "pass",     \* Create: "pass", "block" or "leak"
     mkdir  |-> "pass",     \* Mkdir likewise
     remove |-> "pass"]     \* Remove likewise

\* the bytes the wrapper keeps in the base for payload data
Encode(w, data) ==
    CASE w.codec = "invert"     -> [i \in 1..Len(data) |-> 255 - data[i]]
      [] w.codec = "header"     -> <<1>> \o data
      [] w.codec = "truncChunk" -> SubSeq(data, 1, Min(Len(data), ChunkSize))
      [] OTHER                  -> data

\* the payload the wrapper returns for the bytes raw of the base
Decode(w, raw) ==
    CASE w.codec = "invert" -> [i \in 1..Len(raw) |-> 255 - raw[i]]
      [] w.codec = "header" -> IF raw = <<>> THEN <<>> ELSE Tail(raw)
      [] OTHER              -> raw

\* a mutating call through the wrapper: passed on, blocked with an error,
\* or blocked with an error after the base was changed all the same
Guarded(mode, r, st) ==
    CASE mode = "block" -> [r EXCEPT !.err = "EROFS", !.store = st]
      [] mode = "leak"  -> [r EXCEPT !.err = "EROFS"]
      [] OTHER          -> r

\* a failed Create returns no file
NoHandle(r) == IF r.err # Nil THEN [r EXCEPT !.h = <<>>] ELSE r

\* wrapper.Create(p)
WCreate(w, st, p) ==
    NoHandle(Guarded(w.create,
                     Create([Conforming EXCEPT !.failOp = w.failOp], st, p), st))

\* wrapper.Mkdir(p)
WMkdir(w, st, p) ==
    Guarded(w.mkdir, Mkdir([Conforming EXCEPT !.failOp = w.failOp], st, p), st)

\* wrapper.MkdirAll(p)
WMkdirAll(w, st, p) ==
    Guarded(w.mkdir, MkdirAll([Conforming EXCEPT !.failOp = w.failOp], st, p), st)

\* wrapper.Remove(p)
WRemove(w, st, p) ==
    Guarded(w.remove, Remove([Conforming EXCEPT !.failOp = w.failOp], st, p), st)

\* File.Write(data) through the wrapper on handle h
WWrite(w, st, h, data) ==
    IF w.failOp = "Write" THEN [err |-> "EIO", n |-> 0, store |-> st]
    ELSE [err |-> Nil,
          n |-> IF w.count = "raw" THEN Len(Encode(w, data)) ELSE Len(data),
          store |-> Put(st, h, FileNode(st[h].data \o Encode(w, data)))]

\* wrapper.Open(p)
WOpen(w, st, p) == Open([Conforming EXCEPT !.failOp = w.failOp], st, p)

\* the bytes r read from the base, as the wrapper hands them on
Decoded(w, r) == IF r.err # Nil THEN r ELSE [r EXCEPT !.data = Decode(w, r.data)]

\* io.ReadAll(f) on a file of the wrapper
WReadAll(w, st, h) ==
    Decoded(w, ReadAll([Conforming EXCEPT !.failOp = w.failOp], st, h))

\* the base's answer r to Stat(p), with the size the wrapper reports
Sized(w, st, p, r) ==
    IF r.err # Nil \/ w.size = "raw" \/ r.info.isDir THEN r
    ELSE [r EXCEPT !.info.size = Len(Decode(w, st[p].data))]

\* wrapper.Stat(p)
WStat(w, st, p) ==
    Sized(w, st, p, Stat([Conforming EXCEPT !.failOp = w.failOp], st, p))

RECURSIVE Repeat(_, _)
\* bytes.Repeat(s, n)
Repeat(s, n) == IF n = 0 THEN <<>> ELSE s \o Repeat(s, n - 1)

\* filepath.Join(testDir, "wrapper_test")
wrapperDir == Join(TempDir, <<"wrapper_test">>)

\* the base after Run's wrapper.MkdirAll(testDir)
WrapperBase == [p \in {wrapperDir} |-> DirNode]

\* []byte("passthrough test content")
PassthroughContent ==
    <<112, 97, 115, 115, 116, 104, 114, 111, 117, 103, 104, 32,
      116, 101, 115, 116, 32, 99, 111, 110, 116, 101, 110, 116>>

\* filepath.Join(testDir, "passthrough.txt")
PassthroughPath == Join(wrapperDir, <<"passthrough.txt">>)

\* f.Write(content) on the file c of Create, when there is one
PassthroughWrite(w, c) ==
    IF c.err = Nil THEN WWrite(w, c.store, c.h, PassthroughContent)
    ELSE [err |-> c.err, n |-> 0, store |-> c.store]

\* io.ReadAll(f) on the file f of Open, when there is one
PassthroughRead(w, st, f) ==
    IF f.err = Nil THEN WReadAll(w, st, f.h) ELSE [err |-> f.err, data |-> <<>>]

\* the results of testPassthrough's calls, gathered
PassthroughResults(c, wr, f, r, s, rm) ==
    [create |-> c.err, write |-> [err |-> wr.err, n |-> wr.n],
     open |-> f.err, read |-> r, stat |-> s, remove |-> rm.err,
     store |-> rm.store]

\* the calls of testPassthrough after Open returned f
PassthroughReadBack(w, c, wr, f) ==
    PassthroughResults(c, wr, f, PassthroughRead(w, wr.store, f),
                       WStat(w, wr.store, PassthroughPath),
                       WRemove(w, wr.store, PassthroughPath))

\* the calls of testPassthrough after the write wr to the file c
PassthroughWritten(w, c, wr) ==
    PassthroughReadBack(w, c, wr, WOpen(w, wr.store, PassthroughPath))

\* the calls of testPassthrough after Create returned c
PassthroughCreated(w, c) == PassthroughWritten(w, c, PassthroughWrite(w, c))

\* the calls of testPassthrough in order on layer w, every result kept
PassthroughCalls(w) ==
    PassthroughCreated(w, WCreate(w, WrapperBase, PassthroughPath))

\* PassthroughChecks without the comparison of the bytes read back
PassthroughChecksNoCompare(t, readOnly) ==
    IF readOnly THEN Result("skip", WrapperBase, NoObs)
    ELSE IF t.create # Nil THEN Result("fatal", WrapperBase, NoObs)
    ELSE IF t.open # Nil THEN Result("fatal", t.store, NoObs)
    ELSE IF t.stat.err # Nil THEN Result("fatal", t.store, NoObs)
    ELSE IF t.remove # Nil THEN Result("fatal", t.store, NoObs)
    ELSE Result(Verdict(t.stat.info.isDir),
                t.store,
                [create |-> t.create, open |-> t.open, read |-> t.read,
                 stat |-> t.stat, remove |-> t.remove,
                 content |-> PassthroughContent])

\* the checks of testPassthrough on the results t of its calls
PassthroughChecks(t, readOnly) ==
    IF readOnly THEN Result("skip", WrapperBase, NoObs)
    ELSE IF t.create # Nil THEN Result("fatal", WrapperBase, NoObs)
    ELSE IF t.open # Nil THEN Result("fatal", t.store, NoObs)
    ELSE IF t.stat.err # Nil THEN Result("fatal", t.store, NoObs)
    ELSE IF t.remove # Nil THEN Result("fatal", t.store, NoObs)
    ELSE Result(Verdict(t.read.data # PassthroughContent \/ t.stat.info.isDir),
                t.store,
                [create |-> t.create, open |-> t.open, read |-> t.read,
                 stat |-> t.stat, remove |-> t.remove,
                 content |-> PassthroughContent])

\* WrapperSuite.testPassthrough
testPassthrough(w, readOnly) == PassthroughChecks(PassthroughCalls(w), readOnly)

\* the testCases table of testDataIntegrity; "large" is LargeLen bytes here
IntegrityNames == <<"empty", "small", "binary", "unicode", "large">>
IntegrityContent(name) ==
    CASE name = "empty"   -> <<>>
      [] name = "small"   -> <<104, 101, 108, 108, 111>>
      [] name = "binary"  -> <<0, 255, 0, 255>>
      [] name = "unicode" -> <<230, 151, 165, 230, 156, 172, 232, 170, 158,
                               227, 131, 134, 227, 130, 185, 227, 131, 136,
                               240, 159, 142, 137>>
      [] OTHER            -> Repeat(<<120>>, LargeLen)

\* "integrity_"+tc.name+".bin"
IntegrityFile(name) ==
    CASE name = "empty"   -> "integrity_empty.bin"
      [] name = "small"   -> "integrity_small.bin"
      [] name = "binary"  -> "integrity_binary.bin"
      [] name = "unicode" -> "integrity_unicode.bin"
      [] OTHER            -> "integrity_large.bin"

\* one subtest of WrapperSuite.testDataIntegrity
testDataIntegrity(w, readOnly, name) ==
    LET p       == Join(wrapperDir, <<IntegrityFile(name)>>)
        content == IntegrityContent(name)
        c       == WCreate(w, WrapperBase, p)
    IN IF readOnly THEN Result("skip", WrapperBase, NoObs)
       ELSE IF c.err # Nil THEN Result("fatal", c.store, NoObs)
       ELSE LET wr == WWrite(w, c.store, c.h, content)
                f  == WOpen(w, wr.store, p)
                r  == WReadAll(w, wr.store, f.h)
                o  == [content |-> content, n |-> wr.n, read |-> r,
                       raw |-> wr.store[p].data]
            IN IF wr.err # Nil THEN Result("fatal", wr.store, NoObs)
               ELSE IF f.err # Nil THEN Result("fatal", wr.store, NoObs)
               ELSE IF r.err # Nil THEN Result("fatal", wr.store, NoObs)
               ELSE Result(Verdict(wr.n # Len(content) \/ r.data # content),
                           WRemove(w, wr.store, p).store, o)

\* testWriteBlocking without the check of Remove's error
testWriteBlockingNoRemove(w) ==
    LET c  == WCreate(w, WrapperBase, Join(wrapperDir, <<"writeblock.txt">>))
        m  == WMkdir(w, c.store, Join(wrapperDir, <<"newdir">>))
        rm == WRemove(w, m.store, wrapperDir)
        o  == [create |-> c.err, mkdir |-> m.err, remove |-> rm.err,
               before |-> WrapperBase]
    IN Result(Verdict(c.err = Nil \/ m.err = Nil), rm.store, o)

\* WrapperSuite.testWriteBlocking
testWriteBlocking(w) ==
    LET c  == WCreate(w, WrapperBase, Join(wrapperDir, <<"writeblock.txt">>))
        m  == WMkdir(w, c.store, Join(wrapperDir, <<"newdir">>))
        rm == WRemove(w, m.store, wrapperDir)
        o  == [create |-> c.err, mkdir |-> m.err, remove |-> rm.err,
               before |-> WrapperBase]
    IN Result(Verdict(c.err = Nil \/ m.err = Nil \/ rm.err = Nil), rm.store, o)

\* []byte("compressible data pattern ")
Pattern ==
    <<99, 111, 109, 112, 114, 101, 115, 115, 105, 98, 108, 101, 32,
      100, 97, 116, 97, 32, 112, 97, 116, 116, 101, 114, 110, 32>>

\* testTransformRoundtrip without the comparison of the bytes read back
testTransformRoundtripNoCompare(w) ==
    LET p       == Join(wrapperDir, <<"transform.bin">>)
        content == Repeat(Pattern, PatternReps)
        c       == WCreate(w, WrapperBase, p)
    IN IF c.err # Nil THEN Result("fatal", c.store, NoObs)
       ELSE LET wr == WWrite(w, c.store, c.h, content)
                f  == WOpen(w, wr.store, p)
                r  == WReadAll(w, wr.store, f.h)
                o  == [content |-> content, read |-> r,
                       raw |-> wr.store[p].data]
            IN IF f.err # Nil THEN Result("fatal", wr.store, NoObs)
               ELSE Result("pass", WRemove(w, wr.store, p).store, o)

\* WrapperSuite.testTransformRoundtrip; the pattern is repeated PatternReps
\* times here
testTransformRoundtrip(w) ==
    LET p       == Join(wrapperDir, <<"transform.bin">>)
        content == Repeat(Pattern, PatternReps)
        c       == WCreate(w, WrapperBase, p)
    IN IF c.err # Nil THEN Result("fatal", c.store, NoObs)
       ELSE LET wr == WWrite(w, c.store, c.h, content)
                f  == WOpen(w, wr.store, p)
                r  == WReadAll(w, wr.store, f.h)
                o  == [content |-> content, read |-> r,
                       raw |-> wr.store[p].data]
            IN IF f.err # Nil THEN Result("fatal", wr.store, NoObs)
               ELSE Result(Verdict(r.data # content),
                           WRemove(w, wr.store, p).store, o)

\* filepath.Join(testDir, "fuzz_wrapper", string(rune('a'+counter%26))+".bin")
FuzzWrapperFile(c) == Join(wrapperDir, <<"fuzz_wrapper", Letters[(c % 26) + 1]>>)

\* one call of the function FuzzWrapperRoundtrip hands to f.Fuzz, counter
\* being the value after counter++
FuzzWrapperBody(w, c, data) ==
    LET p  == FuzzWrapperFile(c)
        m  == WMkdirAll(w, WrapperBase, Dir(p))
        cr == WCreate(w, m.store, p)
    IN IF cr.err # Nil THEN Result("pass", cr.store, NoObs)
       ELSE LET wr == WWrite(w, cr.store, cr.h, data)
                f  == WOpen(w, wr.store, p)
                r  == WReadAll(w, wr.store, f.h)
                o  == [content |-> data, read |-> r, raw |-> wr.store[p].data]
            IN IF f.err # Nil THEN Result("fatal", wr.store, NoObs)
               ELSE IF r.err # Nil THEN Result("fatal", wr.store, NoObs)
               ELSE Result(Verdict(r.data # data),
                           WRemove(w, wr.store, p).store, o)

\* WrapperSuite.Run up to its first t.Run: t.Fatal on a nil BaseFS, then on
\* an error of Factory, then on an error of wrapper.MkdirAll(testDir); m is
\* what MkdirAll returns when it is reached
WrapperSetupResult(baseNil, factoryErr, m) ==
    LET o == [baseNil |-> baseNil, factoryErr |-> factoryErr, mkdir |-> m.err]
    IN IF baseNil THEN Result("fatal", [p \in {} |-> DirNode], o)
       ELSE IF factoryErr # Nil THEN Result("fatal", [p \in {} |-> DirNode], o)
       ELSE IF m.err # Nil THEN Result("fatal", m.store, o)
       ELSE Result("pass", m.store, o)

\* the tests WrapperSuite.Run registers, in source order
WrapperCases == <<"Wrapper/Passthrough",
                  "Wrapper/DataIntegrity/empty", "Wrapper/DataIntegrity/small",
                  "Wrapper/DataIntegrity/binary", "Wrapper/DataIntegrity/unicode",
                  "Wrapper/DataIntegrity/large",
                  "Wrapper/WriteBlocking", "Wrapper/TransformRoundtrip">>

\* the condition under which WrapperSuite.Run calls t.Run for a test
WrapperGate(c, name) ==
    CASE name = "Wrapper/WriteBlocking"      -> c.ReadOnly
      [] name = "Wrapper/TransformRoundtrip" -> c.TransformsData
      [] OTHER                               -> TRUE

-----------------------------------------------------------------------------
(* The candidates each case is run against: Conforming, varied in the      *)
(* operations the case calls                                               *)

Depths == 0..MaxChain
LoopErrs == {"ELOOP", "ENOENT", "EIO", "asLink"}
BrokenErrs == {"ENOENT", "EIO", "asLink"}
RelBases == {"linkdir", "linkpath", "cwd"}
RemoveModes == {"link", "target", "both", "truncate", "noop"}
RenameModes == {"link", "deref", "copy", "asFile", "truncate", "noop"}
WriteModes == {"exact", "truncChunk", "shortCount", "padChunk", "lazy"}

CandReadlink(ops) ==
    {[Conforming EXCEPT !.failOp = f, !.readlink = r] :
        f \in {"none"} \cup ops, r \in ReadlinkModes}

CandRelative(ops) ==
    {[Conforming EXCEPT !.failOp = f, !.readlink = r, !.relBase = rb,
                        !.cleanDots = cd, !.statFollows = sf] :
        f \in {"none"} \cup ops, r \in ReadlinkModes, rb \in RelBases,
        cd \in BOOLEAN, sf \in BOOLEAN}

CandFollow(ops) ==
    {[Conforming EXCEPT !.failOp = f, !.followDepth = d, !.statFollows = sf,
                        !.lstatFollows = lf] :
        f \in {"none"} \cup ops, d \in Depths, sf \in BOOLEAN, lf \in BOOLEAN}

OpenWriteModes == {"follow", "materialise"}

CandWriteThrough(ops) ==
    {[Conforming EXCEPT !.failOp = f, !.followDepth = d, !.openWrite = ow] :
        f \in {"none"} \cup ops, d \in Depths, ow \in OpenWriteModes}

CandChain(ops) ==
    {[Conforming EXCEPT !.failOp = f, !.followDepth = d, !.statFollows = sf,
                        !.readlink = r] :
        f \in {"none"} \cup ops, d \in Depths, sf \in BOOLEAN,
        r \in ReadlinkModes}

CandBroken(ops) ==
    {[Conforming EXCEPT !.failOp = f, !.brokenErr = e, !.readlink = r,
                        !.lstatFollows = lf] :
        f \in {"none"} \cup ops, e \in BrokenErrs, r \in ReadlinkModes,
        lf \in BOOLEAN}

CandLoop(ops) ==
    {[Conforming EXCEPT !.failOp = f, !.loopErr = e, !.followDepth = d,
                        !.lstatFollows = lf] :
        f \in {"none"} \cup ops, e \in LoopErrs, d \in Depths, lf \in BOOLEAN}

CandExists(ops) ==
    {[Conforming EXCEPT !.failOp = f, !.linkExists = x] :
        f \in {"none"} \cup ops, x \in {"EEXIST", "overwrite"}}

CandRemove(ops) ==
    {[Conforming EXCEPT !.failOp = f, !.remove = m] :
        f \in {"none"} \cup ops, m \in RemoveModes}

CandRename(ops) ==
    {[Conforming EXCEPT !.failOp = f, !.rename = m] :
        f \in {"none"} \cup ops, m \in RenameModes}

CandWrite(ops) ==
    {[Conforming EXCEPT !.failOp = f, !.write = m] :
        f \in {"none"} \cup ops, m \in WriteModes}

\* the wrappers a read/write test is run against
Codecs == {"identity", "invert", "header", "truncChunk"}
CandWrapper(ops) ==
    {[Transparent EXCEPT !.failOp = f, !.codec = c, !.size = z, !.count = n] :
        f \in {"none"} \cup ops, c \in Codecs, z \in {"plain", "raw"},
        n \in {"plain", "raw"}}

\* the wrappers a test that never calls Stat is run against
CandCounting(ops) == {w \in CandWrapper(ops) : w.size = "plain"}

\* the wrappers a test that neither calls Stat nor reads Write's count is
\* run against
CandCodec(ops) == {w \in CandCounting(ops) : w.count = "plain"}

\* the wrappers testWriteBlocking is run against
BlockModes == {"pass", "block", "leak"}
CandBlocking ==
    {[Transparent EXCEPT !.create = c, !.mkdir = m, !.remove = r] :
        c \in BlockModes, m \in BlockModes, r \in BlockModes}

-----------------------------------------------------------------------------
(* CompareErrors: error values are nil, a *os.PathError around an inner    *)
(* error, or any other error; an error's text is what Error() returns      *)

ErrKinds == {"ENOENT", "EEXIST"}
ErrOps == {"open", "stat"}
ErrPaths == {"/a", "/b"}

\* a nil error
NilError == [type |-> "nil"]

\* errors that are not *os.PathError: a bare errno, or one wrapped with a
\* message
OtherErrors == [type : {"other"}, kind : ErrKinds, ctx : {"", "wrapped"}]

\* &os.PathError{Op, Path, Err}
PathErrors == [type : {"path"}, Op : ErrOps, Path : ErrPaths, Err : OtherErrors]

ErrorValues == {NilError} \cup OtherErrors \cup PathErrors

\* err.Error()
ErrorText(e) ==
    IF e.type = "path" THEN <<e.Op, e.Path, e.Err.ctx, e.Err.kind>>
    ELSE <<e.ctx, e.kind>>

\* the kind of failure an error stands for, as os.IsNotExist and
\* os.IsExist classify it
ErrorKind(e) ==
    CASE e.type = "nil"  -> "nil"
      [] e.type = "path" -> e.Err.kind
      [] OTHER           -> e.kind

\* the list CompareErrors gathers for two *os.PathError
PathErrorList(v1, v2) ==
    (IF v1.Path = v2.Path THEN <<"paths not equal">> ELSE <<>>)
    \o (IF v1.Op # v2.Op THEN <<"ops not equal">> ELSE <<>>)
    \o (IF ErrorText(v1.Err) # ErrorText(v2.Err)
        THEN <<"errors not equal">> ELSE <<>>)

\* CompareErrors(err1, err2): "nil", "differ" (a non-nil error), or "panic"
\* where err2.Error() is called on a nil error
CompareErrors(err1, err2) ==
    CASE err1.type = "nil" -> IF err2.type = "nil" THEN "nil" ELSE "differ"
      [] err1.type = "path" ->
            IF err2.type # "path" THEN "differ"
            ELSE IF Len(PathErrorList(err1, err2)) = 0 THEN "nil"
            ELSE "differ"
      [] OTHER ->
            IF err2.type = "nil" THEN "panic"
            ELSE IF ErrorText(err1) # ErrorText(err2) THEN "differ"
            ELSE "nil"

-----------------------------------------------------------------------------
(* The cases of Suite.Run that end on a path that is no longer there *)

\* FileOperations/Remove
FileRemove(b) ==
    LET filePath == Join(testDir, <<"remove_test.txt">>)
        c        == Create(b, BaseStore, filePath)
    IN IF c.err # Nil THEN Result("panic", c.store, NoObs)
       ELSE LET rm == Remove(b, c.store, filePath)
                s  == Stat(b, rm.store, filePath)
            IN IF rm.err # Nil THEN Result("fatal", rm.store, NoObs)
               ELSE Result(Verdict(~IsNotExist(s.err)), rm.store,
                           [path |-> filePath, stat |-> s.err])

\* the checks of FileOperations/Rename after Rename returned rn
FileRenameChecks(b, rn, oldPath, newPath, content) ==
    LET s == Stat(b, rn.store, oldPath)
        f == Open(b, rn.store, newPath)
        r == ReadAll(b, rn.store, f.h)
    IN IF rn.err # Nil THEN Result("fatal", rn.store, NoObs)
       ELSE IF f.err # Nil THEN Result("fatal", rn.store, NoObs)
       ELSE Result(Verdict(~IsNotExist(s.err) \/ r.data # content), rn.store,
                   [path |-> oldPath, stat |-> s.err, read |-> r,
                    written |-> content])

\* FileOperations/Rename
FileRename(b) ==
    LET oldPath == Join(testDir, <<"rename_old.txt">>)
        newPath == Join(testDir, <<"rename_new.txt">>)
        content == Text("rename test content")
        c       == Create(b, BaseStore, oldPath)
    IN IF c.err # Nil THEN Result("panic", c.store, NoObs)
       ELSE FileRenameChecks(b,
                Rename(b, Write(b, c.store, c.h, content).store,
                       oldPath, newPath),
                oldPath, newPath, content)

\* DirectoryOperations/RemoveAll; MkdirAll makes base on its way to nested
DirRemoveAll(b) ==
    LET base   == Join(testDir, <<"removeall_test">>)
        nested == Join(base, <<"nested">>)
        file   == Join(nested, <<"file.txt">>)
        m      == MkdirAll(b, MkdirAll(b, BaseStore, base).store, nested)
        c      == Create(b, m.store, file)
    IN IF c.err # Nil THEN Result("panic", c.store, NoObs)
       ELSE LET ra == RemoveAll(b, c.store, base)
                s  == Stat(b, ra.store, base)
            IN IF ra.err # Nil THEN Result("fatal", ra.store, NoObs)
               ELSE Result(Verdict(~IsNotExist(s.err)), ra.store,
                           [path |-> base, stat |-> s.err])

\* ErrorSemantics/NotExist without the check of Open's error
ErrNotExistNoOpen(b) ==
    LET p == Join(testDir, <<"nonexistent">>)
        s == Stat(b, BaseStore, p)
        f == Open(b, BaseStore, p)
    IN Result(Verdict(~IsNotExist(s.err)), BaseStore,
              [path |-> p, stat |-> s.err, open |-> f.err])

\* ErrorSemantics/NotExist
ErrNotExist(b) ==
    LET p == Join(testDir, <<"nonexistent">>)
        s == Stat(b, BaseStore, p)
        f == Open(b, BaseStore, p)
    IN Result(Verdict(~IsNotExist(s.err) \/ ~IsNotExist(f.err)), BaseStore,
              [path |-> p, stat |-> s.err, open |-> f.err])

\* the stores the cases above are run against
CandMissing(ops) ==
    {[Conforming EXCEPT !.failOp = f, !.brokenErr = e] :
        f \in {"none"} \cup ops, e \in BrokenErrs}
CandFileRemove(ops) ==
    {[c EXCEPT !.removeFile = m] : c \in CandMissing(ops), m \in {"gone", "noop"}}
CandFileRename(ops) ==
    {[c EXCEPT !.renameFile = m] :
        c \in CandMissing(ops), m \in {"move", "copy", "empty", "noop"}}
CandRemoveAll(ops) ==
    {[c EXCEPT !.removeAll = m] :
        c \in CandMissing(ops), m \in {"tree", "below", "noop"}}

-----------------------------------------------------------------------------
(* Suite.QuickCheck *)

\* path.Join(s.FS.TempDir(), "fstesting_quick_<nanoseconds>")
QuickRoot == Join(TempDir, <<"fstesting_quick">>)

\* the store after QuickCheck's MkdirAll(testDir)
QuickStore == [p \in {QuickRoot} |-> DirNode]

\* what QuickCheck has seen when it stops: the calls it made in order and
\* what they returned
QuickObs(steps, c, f, data, content, rm, s) ==
    [steps |-> steps, create |-> c, open |-> f, read |-> data,
     written |-> content, remove |-> rm, stat |-> s]

\* QuickCheck from Remove on without the check of Stat's error
QuickRemovedNoStat(b, st, filePath, content, data) ==
    LET rm == Remove(b, st, filePath)
        s  == Stat(b, rm.store, filePath)
    IN IF rm.err # Nil
       THEN Result("fatal", rm.store,
                   QuickObs(<<"Create", "Write", "Open", "ReadAll", "Remove">>,
                            Nil, Nil, data, content, rm.err, Nil))
       ELSE Result("pass", rm.store,
                   QuickObs(<<"Create", "Write", "Open", "ReadAll", "Remove",
                              "Stat">>,
                            Nil, Nil, data, content, rm.err, s.err))

\* QuickCheck from Remove on, st being the store after the write and data
\* the bytes read back
QuickRemoved(b, st, filePath, content, data) ==
    LET rm == Remove(b, st, filePath)
        s  == Stat(b, rm.store, filePath)
    IN IF rm.err # Nil
       THEN Result("fatal", rm.store,
                   QuickObs(<<"Create", "Write", "Open", "ReadAll", "Remove">>,
                            Nil, Nil, data, content, rm.err, Nil))
       ELSE Result(IF IsNotExist(s.err) THEN "pass" ELSE "fatal", rm.store,
                   QuickObs(<<"Create", "Write", "Open", "ReadAll", "Remove",
                              "Stat">>,
                            Nil, Nil, data, content, rm.err, s.err))

\* QuickCheck from ReadAll on, f being what Open returned
QuickCompared(b, st, filePath, content, f, data) ==
    IF f.err # Nil
    THEN Result("fatal", st,
                QuickObs(<<"Create", "Write", "Open">>,
                         Nil, f.err, <<>>, content, Nil, Nil))
    ELSE IF data # content
    THEN Result("fatal", st,
                QuickObs(<<"Create", "Write", "Open", "ReadAll">>,
                         Nil, Nil, data, content, Nil, Nil))
    ELSE QuickRemoved(b, st, filePath, content, data)

\* QuickCheck from Open on, st being the store after the write
QuickReadBack(b, st, filePath, content, f) ==
    QuickCompared(b, st, filePath, content, f, ReadAll(b, st, f.h).data)

\* QuickCheck after its MkdirAll: the create/read/delete cycle
QuickCheckBody(b) ==
    LET filePath == Join(QuickRoot, <<"quickcheck.txt">>)
        content  == Text("quick check content")
        c        == Create(b, QuickStore, filePath)
        st       == Write(b, c.store, c.h, content).store
    IN IF c.err # Nil
       THEN Result("fatal", c.store,
                   QuickObs(<<"Create">>, c.err, Nil, <<>>, content, Nil, Nil))
       ELSE QuickReadBack(b, st, filePath, content, Open(b, st, filePath))

-----------------------------------------------------------------------------
(* The path-taking fuzz drivers.  A name is the sequence of its components *)
(* between slashes; component "nul" stands for one that holds a NUL byte,  *)
(* "bad" for one that is not valid UTF-8                                   *)

NameParts == {"a", "b", ".", "..", "nul", "bad"}

RECURSIVE NamesUpTo(_)
NamesUpTo(n) ==
    IF n = 0 THEN {<<>>}
    ELSE LET shorter == NamesUpTo(n - 1)
         IN shorter \cup {Append(s, x) : s \in shorter, x \in NameParts}

\* the names the fuzzing engine hands to a driver
FuzzNames == NamesUpTo(MaxName)

\* strings.ContainsAny(name, "\x00")
HasNul(name) == \E i \in 1..Len(name) : name[i] = "nul"

\* utf8.ValidString(name)
ValidString(name) == \A i \in 1..Len(name) : name[i] # "bad"

\* name == "." || name == ".."
IsDots(name) == name = <<".">> \/ name = <<"..">>

\* the early returns of FuzzCreate's fuzz target
SkipCreate(name) ==
    name = <<>> \/ IsDots(name) \/ HasNul(name) \/ ~ValidString(name)

\* the early returns of FuzzRename's fuzz target
SkipRename(oldName, newName) ==
    \/ oldName = <<>> \/ newName = <<>>
    \/ HasNul(oldName \o newName)
    \/ IsDots(oldName) \/ IsDots(newName)

\* the early returns of FuzzMkdir's fuzz target without the NUL check
SkipMkdirNulPassed(name) == name = <<>> \/ IsDots(name)

\* the early returns of FuzzMkdir's fuzz target
SkipMkdir(name) == name = <<>> \/ HasNul(name) \/ IsDots(name)

\* the early return of FuzzPathTraversal's fuzz target
SkipTraversal(testPath) == testPath = <<>> \/ HasNul(testPath)

\* what an iteration observed: its input, the paths it handed to the store
FuzzObs(input, calls) == [input |-> input, calls |-> calls]

\* an iteration that returned before calling the store
FuzzSkipped(input) == Result("pass", BaseStore, FuzzObs(input, {}))

\* FuzzCreate's fuzz target after Create returned c
FuzzCreateStat(b, name, filePath, c) ==
    LET s == Stat(b, c.store, filePath)
        o == [input |-> <<name>>, calls |-> {Dir(filePath), filePath},
              path |-> filePath, create |-> c.err, stat |-> s]
    IN IF c.err # Nil THEN Result("pass", c.store, o)
       ELSE IF s.err # Nil THEN Result("fail", c.store, o)
       ELSE Result(Verdict(s.info.isDir), Remove(b, c.store, filePath).store, o)

\* FuzzCreate's fuzz target after MkdirAll(dir) returned m
FuzzCreateMade(b, name, filePath, m) ==
    IF m.err # Nil
    THEN Result("pass", m.store, FuzzObs(<<name>>, {Dir(filePath)}))
    ELSE FuzzCreateStat(b, name, filePath, Create(b, m.store, filePath))

\* FuzzCreate's fuzz target
FuzzCreateBody(b, name) ==
    IF SkipCreate(name) THEN FuzzSkipped(<<name>>)
    ELSE FuzzCreateMade(b, name, Join(testDir, <<"fuzz_create">> \o name),
             MkdirAll(b, BaseStore,
                      Dir(Join(testDir, <<"fuzz_create">> \o name))))

\* FuzzMkdir's fuzz target after MkdirAll(dirPath) returned m
FuzzMkdirStat(b, name, dirPath, m) ==
    LET s == Stat(b, m.store, dirPath)
        o == [input |-> <<name>>, calls |-> {dirPath}, path |-> dirPath,
              mkdir |-> m.err, stat |-> s]
    IN IF m.err # Nil THEN Result("pass", m.store, o)
       ELSE IF s.err # Nil THEN Result("fail", m.store, o)
       ELSE Result(Verdict(~s.info.isDir),
                   RemoveAll(b, m.store, dirPath).store, o)

\* FuzzMkdir's fuzz target
FuzzMkdirBody(b, name) ==
    IF SkipMkdir(name) THEN FuzzSkipped(<<name>>)
    ELSE FuzzMkdirStat(b, name, Join(testDir, <<"fuzz_mkdir">> \o name),
             MkdirAll(b, BaseStore, Join(testDir, <<"fuzz_mkdir">> \o name)))

\* a file outside the per-run root
Outside == <<"tmp", "escape">>

\* the store FuzzPathTraversal runs on: the root, and a file beside it
TraversalStore == Put(BaseStore, Outside, FileNode(<<>>))

\* does a sandboxing store refuse path p
Refused(confined, p) == confined /\ ~Under(p, testDir)

\* FuzzPathTraversal's fuzz target on a store that is confined to the root or
\* not: every result is discarded
FuzzPathTraversalBody(b, confined, testPath) ==
    LET fullPath == Join(testDir, testPath)
        s == IF Refused(confined, fullPath) THEN "EPERM"
             ELSE Stat(b, TraversalStore, fullPath).err
        f == IF Refused(confined, fullPath) THEN "EPERM"
             ELSE Open(b, TraversalStore, fullPath).err
        m == IF Refused(confined, fullPath)
             THEN [err |-> "EPERM", store |-> TraversalStore]
             ELSE Mkdir(b, TraversalStore, fullPath)
    IN IF SkipTraversal(testPath) THEN FuzzSkipped(<<testPath>>)
       ELSE Result("pass", m.store,
                   [input |-> <<testPath>>, calls |-> {fullPath},
                    path |-> fullPath, stat |-> s, open |-> f,
                    mkdir |-> m.err])

\* FuzzRename's checks without the check that the old path is gone
FuzzRenameChecksNoOld(b, rn, input, oldPath, newPath, content) ==
    LET f == Open(b, rn.store, newPath)
        r == IF f.err # Nil THEN [err |-> f.err, data |-> <<>>]
             ELSE ReadAll(b, rn.store, f.h)
        c == {Dir(oldPath), oldPath, Dir(newPath), newPath}
    IN IF rn.err # Nil
       THEN Result("pass", Remove(b, rn.store, oldPath).store,
                   [input |-> input, calls |-> c, rename |-> rn.err])
       ELSE Result(Verdict(f.err # Nil \/ r.data # content),
                   Remove(b, rn.store, newPath).store,
                   [input |-> input, calls |-> c, rename |-> rn.err,
                    path |-> oldPath, stat |-> Stat(b, rn.store, oldPath).err,
                    open |-> f.err, read |-> r, written |-> content])

\* FuzzRename's checks after Rename returned rn
FuzzRenameChecks(b, rn, input, oldPath, newPath, content) ==
    LET s == Stat(b, rn.store, oldPath)
        f == Open(b, rn.store, newPath)
        r == IF f.err # Nil THEN [err |-> f.err, data |-> <<>>]
             ELSE ReadAll(b, rn.store, f.h)
        c == {Dir(oldPath), oldPath, Dir(newPath), newPath}
    IN IF rn.err # Nil
       THEN Result("pass", Remove(b, rn.store, oldPath).store,
                   [input |-> input, calls |-> c, rename |-> rn.err])
       ELSE Result(Verdict(~IsNotExist(s.err) \/ f.err # Nil
                           \/ r.data # content),
                   Remove(b, rn.store, newPath).store,
                   [input |-> input, calls |-> c, rename |-> rn.err,
                    path |-> oldPath, stat |-> s.err, open |-> f.err,
                    read |-> r, written |-> content])

\* FuzzRename's fuzz target after Create(oldPath) returned c
FuzzRenameCreated(b, c, input, oldPath, newPath, content) ==
    IF c.err # Nil
    THEN Result("pass", c.store, FuzzObs(input, {Dir(oldPath), oldPath}))
    ELSE FuzzRenameChecks(b,
             Rename(b,
                    MkdirAll(b, Write(b, c.store, c.h, content).store,
                             Dir(newPath)).store,
                    oldPath, newPath),
             input, oldPath, newPath, content)

\* FuzzRename's fuzz target
FuzzRenameBody(b, oldName, newName) ==
    IF SkipRename(oldName, newName) THEN FuzzSkipped(<<oldName, newName>>)
    ELSE FuzzRenameCreated(b,
             Create(b,
                    MkdirAll(b, BaseStore,
                             Dir(Join(testDir, <<"fuzz_rename">> \o oldName))).store,
                    Join(testDir, <<"fuzz_rename">> \o oldName)),
             <<oldName, newName>>,
             Join(testDir, <<"fuzz_rename">> \o oldName),
             Join(testDir, <<"fuzz_rename">> \o newName),
             Text("rename test content"))

\* the stores the path-taking fuzz drivers are run against
CandFuzz(ops) == {[Conforming EXCEPT !.failOp = f] : f \in {"none"} \cup ops}
CandFuzzRename(ops) ==
    {[c EXCEPT !.renameFile = m] :
        c \in CandFuzz(ops), m \in {"move", "copy", "empty", "noop"}}

\* the new names FuzzRename is given here: the names of at most one component
RenameTargets == {n \in FuzzNames : Len(n) <= 1}

-----------------------------------------------------------------------------
(* The files of the counting fuzz drivers.  go test -fuzz runs the driver  *)
(* function in every worker process, so each worker has its own counter    *)

Workers == 1..NumWorkers

CountingDrivers == {"FuzzReadWrite", "FuzzWrapperRoundtrip"}

\* the file of the call that raised the counter to c
DriverFile(driver, c) ==
    IF driver = "FuzzReadWrite" THEN FuzzFile(c) ELSE FuzzWrapperFile(c)

\* the calls made so far, with the file each one works on
CallsOf(driver, counters) ==
    UNION {{[worker |-> w, iter |-> i, path |-> DriverFile(driver, i)] :
               i \in 1..counters[w]} : w \in Workers}

-----------------------------------------------------------------------------
(* GenerateTestcases: baseline results taken from the host file system *)

\* the preconditions table, in source order
preconditions == <<"notcreated", "created", "dir", "permissions">>

\* []string{testdir, ".", ""}
PathPrefixes == <<"testdir", ".", "">>

\* ForEveryFlag(fn) calls fn with one flag value after the other and returns
\* the first error fn returns; the values are numbered here
ForEveryFlag == [i \in 1..MaxFlags |-> i - 1]

\* ForEveryPermission(fn) likewise for the file modes
ForEveryPermission == [i \in 1..MaxModes |-> i - 1]

\* the number of testcases of a full generation
GenerationLen ==
    MaxFlags * MaxModes * Len(PathPrefixes) * Len(preconditions)

\* the loop variables at the i-th pass (from 0) through the innermost body
GenerationAt(i) ==
    LET inner == Len(PathPrefixes) * Len(preconditions)
    IN [flag       |-> ForEveryFlag[(i \div (inner * MaxModes)) + 1],
        mode       |-> ForEveryPermission[((i \div inner) % MaxModes) + 1],
        pathPrefix |-> PathPrefixes[((i \div Len(preconditions))
                                      % Len(PathPrefixes)) + 1],
        condition  |-> preconditions[(i % Len(preconditions)) + 1]]

\* the Testcase built in a pass
NewTestcase(testNo, at) ==
    [TestNo |-> testNo, PreCondition |-> at.condition, Flags |-> at.flag,
     Mode |-> at.mode, Prefix |-> at.pathPrefix]

\* GenerateTestcases before its loops: testNo, testcases, err
GenerateStart(testdir, fnNil) ==
    [testdir |-> testdir, fnNil |-> fnNil, testNo |-> 0, testcases |-> <<>>,
     err |-> IF testdir = "" THEN "testdir undefined" ELSE Nil,
     fixtures |-> 0, opens |-> 0, calls |-> <<>>, results |-> <<>>]

\* a pass that went on past an error of fn
GenerateCallIgnoringError(o, at, fnErr) ==
    [o EXCEPT !.opens = @ + 1,
              !.calls = Append(@, o.testNo),
              !.results = Append(@, fnErr),
              !.testcases = Append(@, NewTestcase(o.testNo, at)),
              !.testNo = @ + 1]

\* a pass from os.OpenFile on: the file is opened, written, read and closed,
\* fn is called with the testcase, and the testcase is appended and testNo
\* advanced when fn returned nil
GenerateCall(o, at, fnErr) ==
    IF fnErr # Nil
    THEN [o EXCEPT !.opens = @ + 1,
                   !.calls = Append(@, o.testNo),
                   !.results = Append(@, fnErr),
                   !.err = fnErr]
    ELSE [o EXCEPT !.opens = @ + 1,
                   !.calls = Append(@, o.testNo),
                   !.results = Append(@, fnErr),
                   !.testcases = Append(@, NewTestcase(o.testNo, at)),
                   !.testNo = @ + 1]

\* one pass through the body: the fixture of the precondition on the host,
\* which ends the generation when it fails, then the rest
GeneratePass(o, at, fixtureErr, fnErr) ==
    IF at.condition = "notcreated" THEN GenerateCall(o, at, fnErr)
    ELSE IF fixtureErr # Nil THEN [o EXCEPT !.err = fixtureErr]
    ELSE GenerateCall([o EXCEPT !.fixtures = @ + 1], at, fnErr)

-----------------------------------------------------------------------------
(* OsTestDir and FsTestDir: the same steps, on the host or on fs *)

TestDirFunctions == {"OsTestDir", "FsTestDir"}

\* the function up to its return: Mkdir, Getwd, the assignment of cleanup,
\* Chdir
TestDirCall(fn, mkdirErr, getwdErr, chdirErr) ==
    LET o == [fn |-> fn, created |-> FALSE, exists |-> FALSE, cwd |-> "start",
              cleanup |-> "noop", err |-> Nil, cleaned |-> FALSE,
              chdirBack |-> Nil, removeAll |-> Nil, panicked |-> FALSE]
    IN IF mkdirErr # Nil THEN [o EXCEPT !.err = mkdirErr]
       ELSE IF getwdErr # Nil
            THEN [o EXCEPT !.created = TRUE, !.exists = TRUE, !.err = getwdErr]
       ELSE [o EXCEPT !.created = TRUE, !.exists = TRUE,
                      !.cleanup = "restore",
                      !.cwd = IF chdirErr = Nil THEN "testdir" ELSE "start",
                      !.err = chdirErr]

\* the returned cleanup, called: the no-op, or Chdir(startingDir) with its
\* error dropped, then RemoveAll(testdir) and a panic on its error
TestDirCleanup(o, chdirErr, removeAllErr) ==
    IF o.cleanup = "noop" THEN [o EXCEPT !.cleaned = TRUE]
    ELSE [o EXCEPT !.cleaned = TRUE,
                   !.chdirBack = chdirErr,
                   !.removeAll = removeAllErr,
                   !.cwd = IF chdirErr = Nil THEN "start" ELSE @,
                   !.exists = removeAllErr # Nil,
                   !.panicked = removeAllErr # Nil]

-----------------------------------------------------------------------------
(* FsTest: a testcase replayed; every call is recorded with the file system *)
(* it is issued to, "fs" for the absfs.FileSystem and "os" for the host     *)

Call(on, op) == [on |-> on, op |-> op]

\* createFile(fs, name)
createFile(createErr) ==
    IF createErr # Nil
    THEN [err |-> createErr, ops |-> <<Call("fs", "Stat"), Call("fs", "Create")>>]
    ELSE [err |-> Nil,
          ops |-> <<Call("fs", "Stat"), Call("fs", "Create"),
                    Call("fs", "WriteString"), Call("fs", "Close")>>]

\* pretest(fs, path, testcase): the fixture of the precondition
pretest(precondition, createErr, mkdirErr, chmodErr) ==
    LET c == createFile(createErr)
    IN CASE precondition \in {"", "notcreated"} ->
              [name |-> "fstestingFile", err |-> Nil, ops |-> <<>>]
         [] precondition = "created" ->
              [name |-> IF c.err # Nil THEN "" ELSE "fstestingFile",
               err |-> c.err, ops |-> c.ops]
         [] precondition = "dir" ->
              [name |-> "fstestingDir", err |-> mkdirErr,
               ops |-> <<Call("os", "Mkdir")>>]
         [] OTHER ->
              IF c.err # Nil
              THEN [name |-> "fstestingFile", err |-> c.err, ops |-> c.ops]
              ELSE [name |-> "fstestingFile", err |-> chmodErr,
                    ops |-> Append(c.ops, Call("fs", "Chmod"))]

\* test(fs, testNo, name, flags, mode, precondition): open, write, seek,
\* read and close
test(name) ==
    [name |-> name,
     ops |-> <<Call("os", "OpenFile"), Call("os", "Write"), Call("os", "Seek"),
               Call("os", "Read"), Call("os", "Close")>>]

\* FsTest(fs, path, testcase): the error of pretest is dropped, posttest does
\* nothing
FsTest(precondition, createErr, mkdirErr, chmodErr) ==
    LET p == pretest(precondition, createErr, mkdirErr, chmodErr)
        t == test(p.name)
    IN [precondition |-> precondition, name |-> t.name, pretestErr |-> p.err,
        fixture |-> p.ops, ops |-> p.ops \o t.ops, err |-> Nil]

-----------------------------------------------------------------------------
(* Actions *)

NoCase == [case |-> "none", verdict |-> "none", b |-> Conforming,
           store |-> BaseStore, obs |-> NoObs]

Init ==
    /\ \E pr \in {"DefaultFeatures", "MinimalFeatures", "literal"} :
          /\ preset = pr
          /\ features \in CASE pr = "DefaultFeatures" -> {DefaultFeatures}
                            [] pr = "MinimalFeatures" -> {MinimalFeatures}
                            [] OTHER -> LiteralFeatures
    /\ isSymlinkFS \in BOOLEAN
    /\ pc \in {"setup", "quick", "fuzz", "overlay", "wsetup", "wfuzz", "compare",
              "fcreate", "frename", "fmkdir", "ftraverse", "workers", "skips",
              "generate", "testdir", "replay"}
    \* a fuzz driver takes the store and a directory, and an overlay test
    \* builds its own store: no Suite, the capability set is left at the
    \* default
    /\ pc # "setup" => preset = "DefaultFeatures" /\ isSymlinkFS
    /\ cfg \in Configs \cup WrapperConfigs \cup SkipConfigs
    /\ pc \in {"setup", "quick"} => cfg \in Configs
    /\ pc = "wsetup" => cfg \in WrapperConfigs
    /\ pc = "skips" => cfg \in SkipConfigs
    /\ pc \notin {"setup", "quick", "wsetup", "skips"} => cfg = NoConfig
    /\ root = NoRoot
    /\ grp = 1
    /\ idx = 0
    /\ counter = 0
    /\ entered = {}
    /\ skipped = {}
    /\ last = NoCase

\* Run, up to the first t.Run: create the per-run root or stop with
\* t.Fatalf; the cleanup is registered after the root is made
Setup ==
    /\ pc = "setup"
    /\ \E f \in {"none", "MkdirAll"} :
          LET m == MkdirAll([Conforming EXCEPT !.failOp = f],
                            [p \in {} |-> DirNode], RunRoot(cfg))
          IN /\ pc' = IF m.err # Nil THEN "aborted" ELSE "gate"
             /\ root' = IF m.err # Nil THEN root
                        ELSE [path |-> RunRoot(cfg), made |-> root.made + 1,
                              removed |-> FALSE]
    /\ UNCHANGED <<cfg, preset, features, isSymlinkFS, grp, idx, counter, entered,
                   skipped, last>>

\* Run at the t.Run of group Groups[grp]: the group function is entered if
\* its gate is open; testSymlinks skips itself when the store has no symlink
\* interface
RunGroup ==
    /\ pc = "gate"
    /\ grp <= Len(Groups)
    /\ LET g == Groups[grp]
       IN IF ~GroupGate(features, g)
          THEN /\ grp' = grp + 1
               /\ UNCHANGED <<pc, idx, entered, skipped>>
          ELSE /\ entered' = entered \cup {g}
               /\ IF g = "Symlinks" /\ ~isSymlinkFS
                  THEN /\ skipped' = skipped \cup {g}
                       /\ grp' = grp + 1
                       /\ UNCHANGED <<pc, idx>>
                  ELSE IF Cases(g) = <<>>
                  THEN /\ grp' = grp + 1
                       /\ UNCHANGED <<pc, idx, skipped>>
                  ELSE /\ pc' = "cases"
                       /\ idx' = 0
                       /\ UNCHANGED <<grp, skipped>>
    /\ UNCHANGED <<cfg, root, preset, features, isSymlinkFS, counter, last>>

\* Run returns after the last group; the registered cleanup removes the
\* root unless KeepTestDir is set
Finish ==
    /\ pc = "gate"
    /\ grp = Len(Groups) + 1
    /\ pc' = "done"
    /\ root' = [root EXCEPT !.removed = ~cfg.KeepTestDir]
    /\ UNCHANGED <<cfg, preset, features, isSymlinkFS, grp, idx, counter, entered,
                   skipped, last>>

\* is name the next case of the current group
AtCase(name) ==
    /\ pc = "cases"
    /\ idx < Len(Cases(Groups[grp]))
    /\ Cases(Groups[grp])[idx + 1] = name

\* a case ends: a panic ends the test process, any other verdict lets the
\* next case (or group) run
EndCase(name, b, r) ==
    /\ last' = [case |-> name, verdict |-> r.verdict, b |-> b,
                store |-> r.store, obs |-> r.obs]
    /\ IF r.verdict = "panic"
       THEN /\ pc' = "aborted"
            /\ UNCHANGED <<grp, idx>>
       ELSE IF idx + 1 = Len(Cases(Groups[grp]))
       THEN /\ pc' = "gate"
            /\ grp' = grp + 1
            /\ idx' = 0
       ELSE /\ idx' = idx + 1
            /\ UNCHANGED <<pc, grp>>
    /\ UNCHANGED <<cfg, root, preset, features, isSymlinkFS, counter, entered, skipped>>

CaseFileCreateAndRead ==
    /\ AtCase("CreateAndRead")
    /\ \E b \in CandWrite({"Create", "Write", "Close", "Open", "Read"}) :
          EndCase("CreateAndRead", b, FileCreateAndRead(b))

CaseSymCreateAndRead ==
    /\ AtCase("Sym/CreateAndRead")
    /\ \E b \in CandReadlink({"Create", "Symlink", "Readlink"}) :
          EndCase("Sym/CreateAndRead", b, SymCreateAndRead(b))

CaseSymLstat ==
    /\ AtCase("Sym/Lstat")
    /\ \E b \in CandFollow({"Create", "Symlink", "Stat", "Lstat"}) :
          EndCase("Sym/Lstat", b, SymLstat(b))

CaseSymRelativeSymlink ==
    /\ AtCase("Sym/RelativeSymlink")
    /\ \E b \in CandRelative({"MkdirAll", "Create", "Symlink", "Readlink"}) :
          EndCase("Sym/RelativeSymlink", b, SymRelativeSymlink(b))

CaseSymSymlinkToDirectory ==
    /\ AtCase("Sym/SymlinkToDirectory")
    /\ \E b \in CandFollow({"Mkdir", "Create", "Symlink", "Stat", "Lstat"}) :
          EndCase("Sym/SymlinkToDirectory", b, SymSymlinkToDirectory(b))

CaseSymBrokenSymlink ==
    /\ AtCase("Sym/BrokenSymlink")
    /\ \E b \in CandBroken({"Symlink", "Readlink", "Lstat", "Stat"}) :
          EndCase("Sym/BrokenSymlink", b, SymBrokenSymlink(b))

CaseSymSymlinkAlreadyExists ==
    /\ AtCase("Sym/SymlinkAlreadyExists")
    /\ \E b \in CandExists({"Create", "Symlink"}) :
          EndCase("Sym/SymlinkAlreadyExists", b, SymSymlinkAlreadyExists(b))

CaseSymCircularSymlinks ==
    /\ AtCase("Sym/CircularSymlinks")
    /\ \E b \in CandReadlink({"MkdirAll", "Symlink", "Lstat", "Readlink"}) :
          EndCase("Sym/CircularSymlinks", b, SymCircularSymlinks(b))

CaseSymSelfReferenceSymlink ==
    /\ AtCase("Sym/SelfReferenceSymlink")
    /\ \E b \in CandLoop({"Symlink", "Lstat", "Stat"}) :
          EndCase("Sym/SelfReferenceSymlink", b, SymSelfReferenceSymlink(b))

CaseSymTwoNodeCycle ==
    /\ AtCase("Sym/TwoNodeCycle")
    /\ \E b \in CandLoop({"Symlink", "Lstat", "Stat"}) :
          EndCase("Sym/TwoNodeCycle", b, SymTwoNodeCycle(b))

CaseSymRemoveSymlink ==
    /\ AtCase("Sym/RemoveSymlink")
    /\ \E b \in CandRemove({"Create", "Symlink", "Remove", "Lstat", "Stat"}) :
          EndCase("Sym/RemoveSymlink", b, SymRemoveSymlink(b))

CaseSymReadThroughSymlink ==
    /\ AtCase("Sym/ReadThroughSymlink")
    /\ \E b \in CandFollow({"Create", "Write", "Symlink", "Open", "Read"}) :
          EndCase("Sym/ReadThroughSymlink", b, SymReadThroughSymlink(b))

CaseSymWriteThroughSymlink ==
    /\ AtCase("Sym/WriteThroughSymlink")
    /\ \E b \in CandWriteThrough({"Create", "Write", "Symlink", "Open", "Read"}) :
          EndCase("Sym/WriteThroughSymlink", b, SymWriteThroughSymlink(b))

CaseSymChainedSymlinks ==
    /\ AtCase("Sym/ChainedSymlinks")
    /\ \E b \in CandChain({"Create", "Symlink", "Lstat", "Readlink", "Stat",
                           "Open", "Read"}) :
          EndCase("Sym/ChainedSymlinks", b, SymChainedSymlinks(b))

CaseSymRenameSymlink ==
    /\ AtCase("Sym/RenameSymlink")
    /\ \E b \in CandRename({"Create", "Symlink", "Rename", "Lstat", "Stat"}) :
          EndCase("Sym/RenameSymlink", b, SymRenameSymlink(b))

CaseSymSameDirRelativeSymlink ==
    /\ AtCase("Sym/SameDirRelativeSymlink")
    /\ \E b \in CandRelative({"Create", "Symlink", "Readlink", "Stat"}) :
          EndCase("Sym/SameDirRelativeSymlink", b, SymSameDirRelativeSymlink(b))

Errs == {Nil, "EIO"}

CasePermChmod ==
    /\ AtCase("Chmod")
    /\ \E ce \in Errs, he \in Errs, se \in Errs, perm \in {384, 420} :
          EndCase("Chmod", Conforming,
                  Result(PermChmod(ce, he, se, perm), BaseStore,
                         [createErr |-> ce, opErr |-> he, statErr |-> se,
                          value |-> perm]))

CaseTimeChtimes ==
    /\ AtCase("Chtimes")
    /\ \E ce \in Errs, he \in Errs, se \in Errs,
          diff \in {-1001, -1000, 0, 1000, 1001} :
          EndCase("Chtimes", Conforming,
                  Result(TimeChtimes(ce, he, se, diff), BaseStore,
                         [createErr |-> ce, opErr |-> he, statErr |-> se,
                          value |-> diff]))

\* one iteration of FuzzReadWrite on a fuzz input
FuzzReadWrite ==
    /\ pc = "fuzz"
    /\ counter < MaxIter
    /\ counter' = counter + 1
    /\ \E data \in Payloads,
          b \in CandWrite({"MkdirAll", "Create", "Write", "Open", "Read"}) :
          LET r == FuzzReadWriteBody(b, counter + 1, data)
          IN last' = [case |-> "FuzzReadWrite", verdict |-> r.verdict, b |-> b,
                      store |-> r.store, obs |-> r.obs]
    /\ UNCHANGED <<cfg, root, preset, features, isSymlinkFS, pc, grp, idx, entered, skipped>>

\* is name the next test of symlink_overlay_test.go
AtOverlay(name) ==
    /\ pc = "overlay"
    /\ idx < Len(OverlayTests)
    /\ OverlayTests[idx + 1] = name

\* a test function ends: a panic ends the test process
EndOverlay(name, b, r) ==
    /\ last' = [case |-> name, verdict |-> r.verdict, b |-> b,
                store |-> r.store, obs |-> r.obs]
    /\ pc' = IF r.verdict = "panic" THEN "aborted"
             ELSE IF idx + 1 = Len(OverlayTests) THEN "tested" ELSE pc
    /\ idx' = IF r.verdict = "panic" THEN idx ELSE idx + 1
    /\ UNCHANGED <<cfg, root, preset, features, isSymlinkFS, grp, counter, entered, skipped>>

TestOverlayBasic ==
    /\ AtOverlay("Overlay/Basic")
    /\ \E b \in CandChain({"Create", "Write", "Symlink", "Open", "Read",
                           "Readlink", "Lstat", "Stat"}) :
          EndOverlay("Overlay/Basic", b, OverlayBasic(b))

TestOverlayRelativeSymlink ==
    /\ AtOverlay("Overlay/RelativeSymlink")
    /\ \E b \in CandRelative({"MkdirAll", "Create", "Symlink", "Open", "Read"}) :
          EndOverlay("Overlay/RelativeSymlink", b, OverlayRelativeSymlink(b))

TestOverlayBrokenSymlink ==
    /\ AtOverlay("Overlay/BrokenSymlink")
    /\ \E b \in CandBroken({"Symlink", "Lstat", "Stat"}) :
          EndOverlay("Overlay/BrokenSymlink", b, OverlayBrokenSymlink(b))

TestOverlayCircularSymlink ==
    /\ AtOverlay("Overlay/CircularSymlink")
    /\ \E b \in CandLoop({"Symlink", "Stat"}) :
          EndOverlay("Overlay/CircularSymlink", b, OverlayCircularSymlink(b))

TestOverlayRemoveSymlink ==
    /\ AtOverlay("Overlay/RemoveSymlink")
    /\ \E b \in CandRemove({"Create", "Symlink", "Remove", "Open", "Read"}) :
          EndOverlay("Overlay/RemoveSymlink", b, OverlayRemoveSymlink(b))

\* WrapperSuite.Run up to its first t.Run: BaseFS must be set, the Factory
\* must return a wrapper and the wrapper must make the test directory
WrapperSetup ==
    /\ pc = "wsetup"
    /\ \E baseNil \in BOOLEAN, factoryErr \in Errs, mk \in BlockModes :
          LET w == [Transparent EXCEPT !.mkdir = mk]
              m == WMkdirAll(w, [p \in {} |-> DirNode], wrapperDir)
              r == WrapperSetupResult(baseNil, factoryErr, m)
          IN /\ pc' = IF r.verdict = "fatal" THEN "aborted" ELSE "wcases"
             /\ last' = [case |-> "Wrapper/Setup", verdict |-> r.verdict,
                         b |-> w, store |-> r.store, obs |-> r.obs]
    /\ idx' = 0
    /\ UNCHANGED <<cfg, root, preset, features, isSymlinkFS, grp, counter,
                   entered, skipped>>

\* is name the next test WrapperSuite.Run registers
AtWrapper(name) ==
    /\ pc = "wcases"
    /\ idx < Len(WrapperCases)
    /\ WrapperCases[idx + 1] = name
    /\ WrapperGate(cfg, name)

\* a test of WrapperSuite.Run ends
EndWrapper(name, w, r) ==
    /\ last' = [case |-> name, verdict |-> r.verdict, b |-> w,
                store |-> r.store, obs |-> r.obs]
    /\ idx' = idx + 1
    /\ UNCHANGED <<cfg, root, preset, features, isSymlinkFS, pc, grp, counter,
                   entered, skipped>>

\* WrapperSuite.Run passes a test whose flag is false
WrapperSkipGated ==
    /\ pc = "wcases"
    /\ idx < Len(WrapperCases)
    /\ ~WrapperGate(cfg, WrapperCases[idx + 1])
    /\ idx' = idx + 1
    /\ UNCHANGED <<cfg, root, preset, features, isSymlinkFS, pc, grp, counter,
                   entered, skipped, last>>

\* WrapperSuite.Run returns
WrapperFinish ==
    /\ pc = "wcases"
    /\ idx = Len(WrapperCases)
    /\ pc' = "wdone"
    /\ UNCHANGED <<cfg, root, preset, features, isSymlinkFS, grp, idx, counter,
                   entered, skipped, last>>

WrapperOps == {"Create", "Write", "Open", "Read", "Stat", "Remove"}

WrapperPassthrough ==
    /\ AtWrapper("Wrapper/Passthrough")
    /\ \E w \in CandWrapper(WrapperOps) :
          EndWrapper("Wrapper/Passthrough", w, testPassthrough(w, cfg.ReadOnly))

WrapperDataIntegrity ==
    \E i \in 1..Len(IntegrityNames) :
        /\ AtWrapper(WrapperCases[i + 1])
        /\ \E w \in CandCounting(WrapperOps \ {"Stat"}) :
              EndWrapper(WrapperCases[i + 1], w,
                         testDataIntegrity(w, cfg.ReadOnly, IntegrityNames[i]))

WrapperWriteBlocking ==
    /\ AtWrapper("Wrapper/WriteBlocking")
    /\ \E w \in CandBlocking :
          EndWrapper("Wrapper/WriteBlocking", w, testWriteBlocking(w))

WrapperTransformRoundtrip ==
    /\ AtWrapper("Wrapper/TransformRoundtrip")
    /\ \E w \in CandCodec(WrapperOps \ {"Stat"}) :
          EndWrapper("Wrapper/TransformRoundtrip", w, testTransformRoundtrip(w))

\* one iteration of FuzzWrapperRoundtrip on a fuzz input
FuzzWrapperRoundtrip ==
    /\ pc = "wfuzz"
    /\ counter < MaxIter
    /\ counter' = counter + 1
    /\ \E data \in Payloads, w \in CandCodec(WrapperOps \ {"Stat"}) :
          LET r == FuzzWrapperBody(w, counter + 1, data)
          IN last' = [case |-> "FuzzWrapperRoundtrip", verdict |-> r.verdict,
                      b |-> w, store |-> r.store, obs |-> r.obs]
    /\ UNCHANGED <<cfg, root, preset, features, isSymlinkFS, pc, grp, idx,
                   entered, skipped>>

\* one call of CompareErrors
CallCompareErrors ==
    /\ pc = "compare"
    /\ \E err1 \in ErrorValues, err2 \in ErrorValues :
          last' = [case |-> "CompareErrors",
                   verdict |-> CompareErrors(err1, err2), b |-> Conforming,
                   store |-> BaseStore,
                   obs |-> [err1 |-> err1, err2 |-> err2]]
    /\ pc' = "compared"
    /\ UNCHANGED <<cfg, root, preset, features, isSymlinkFS, grp, idx, counter,
                   entered, skipped>>

CaseFileRemove ==
    /\ AtCase("Remove")
    /\ \E b \in CandFileRemove({"Create", "Remove", "Stat"}) :
          EndCase("Remove", b, FileRemove(b))

CaseFileRename ==
    /\ AtCase("Rename")
    /\ \E b \in CandFileRename({"Create", "Write", "Rename", "Stat", "Open", "Read"}) :
          EndCase("Rename", b, FileRename(b))

CaseDirRemoveAll ==
    /\ AtCase("RemoveAll")
    /\ \E b \in CandRemoveAll({"MkdirAll", "Create", "RemoveAll", "Stat"}) :
          EndCase("RemoveAll", b, DirRemoveAll(b))

CaseErrNotExist ==
    /\ AtCase("NotExist")
    /\ \E b \in CandMissing({"Stat", "Open"}) :
          EndCase("NotExist", b, ErrNotExist(b))

\* Suite.QuickCheck: the root is made under FS.TempDir(), the cycle runs,
\* and the deferred RemoveAll runs when the function returns or stops
QuickCheck ==
    /\ pc = "quick"
    /\ \E b \in CandFileRemove({"MkdirAll", "Create", "Write", "Open", "Read",
                                "Remove", "Stat"}) :
          LET m == MkdirAll(b, [p \in {} |-> DirNode], QuickRoot)
              r == QuickCheckBody(b)
          IN IF m.err # Nil
             THEN /\ pc' = "aborted"
                  /\ UNCHANGED <<root, last>>
             ELSE /\ pc' = "checked"
                  /\ root' = [path |-> QuickRoot, made |-> root.made + 1,
                              removed |-> TRUE]
                  /\ last' = [case |-> "QuickCheck", verdict |-> r.verdict,
                              b |-> b, store |-> RemoveAll(b, r.store, QuickRoot).store,
                              obs |-> r.obs]
    /\ UNCHANGED <<cfg, preset, features, isSymlinkFS, grp, idx, counter,
                   entered, skipped>>

\* one call of the fuzz target of a path-taking driver ends; every call
\* starts on the directory the driver was given and cleans up after itself,
\* so one call is followed
EndFuzz(name, b, r) ==
    /\ pc' = "fuzzed"
    /\ last' = [case |-> name, verdict |-> r.verdict, b |-> b,
                store |-> r.store, obs |-> r.obs]
    /\ UNCHANGED <<cfg, root, preset, features, isSymlinkFS, grp, idx, counter,
                   entered, skipped>>

FuzzCreate ==
    /\ pc = "fcreate"
    /\ \E name \in FuzzNames, b \in CandFuzz({"MkdirAll", "Create", "Stat"}) :
          EndFuzz("FuzzCreate", b, FuzzCreateBody(b, name))

FuzzRename ==
    /\ pc = "frename"
    /\ \E oldName \in FuzzNames, newName \in RenameTargets,
          b \in CandFuzzRename({"Create", "Rename", "Stat", "Open"}) :
          EndFuzz("FuzzRename", b, FuzzRenameBody(b, oldName, newName))

FuzzMkdir ==
    /\ pc = "fmkdir"
    /\ \E name \in FuzzNames, b \in CandFuzz({"MkdirAll", "Stat"}) :
          EndFuzz("FuzzMkdir", b, FuzzMkdirBody(b, name))

FuzzPathTraversal ==
    /\ pc = "ftraverse"
    /\ \E testPath \in FuzzNames, confined \in BOOLEAN,
          b \in CandFuzz({"Stat", "Open", "Mkdir"}) :
          EndFuzz("FuzzPathTraversal", b,
                  FuzzPathTraversalBody(b, confined, testPath))

\* a worker calls the fuzz target of a counting driver: counter++ and the
\* file of this call; what the call does with the file is FuzzReadWrite's
\* and FuzzWrapperRoundtrip's matter
FuzzWorkerCall ==
    /\ pc = "workers"
    /\ \E driver \in CountingDrivers, w \in Workers :
          LET counters == IF last.case = "none" THEN [v \in Workers |-> 0]
                          ELSE last.obs.counters
          IN /\ last.case \in {"none", driver}
             /\ counters[w] < MaxRun
             /\ last' = [case |-> driver, verdict |-> "none", b |-> Conforming,
                         store |-> BaseStore,
                         obs |-> [workers |-> TRUE,
                                  counters |-> [counters EXCEPT ![w] = @ + 1]]]
    /\ UNCHANGED <<cfg, root, preset, features, isSymlinkFS, pc, grp, idx,
                   counter, entered, skipped>>

\* Suite.RunWithSkips: skipMap is built and never read; then s.Run(t)
RunWithSkips ==
    /\ pc = "skips"
    /\ pc' = "setup"
    /\ UNCHANGED <<cfg, root, preset, features, isSymlinkFS, grp, idx, counter,
                   entered, skipped, last>>

\* GenerateTestcases is called: it returns at once without a testdir
GenerateTestcases ==
    /\ pc = "generate"
    /\ \E testdir \in {"", "testdir"}, fnNil \in BOOLEAN :
          LET o == GenerateStart(testdir, fnNil)
          IN /\ last' = [case |-> "GenerateTestcases", verdict |-> "none",
                         b |-> Conforming, store |-> BaseStore, obs |-> o]
             /\ pc' = IF o.err # Nil THEN "generated" ELSE "generating"
    /\ UNCHANGED <<cfg, root, preset, features, isSymlinkFS, grp, idx, counter,
                   entered, skipped>>

\* one pass through the body of the loops; an error returned by the body
\* goes up through ForEveryPermission and ForEveryFlag and ends the function
GenerateNext ==
    /\ pc = "generating"
    /\ idx < GenerationLen
    /\ \E fixtureErr \in {Nil, "EACCES"},
          fnErr \in IF last.obs.fnNil THEN {Nil} ELSE {Nil, "stop"} :
          LET o == GeneratePass(last.obs, GenerationAt(idx), fixtureErr, fnErr)
          IN /\ last' = [last EXCEPT !.obs = o]
             /\ pc' = IF o.err # Nil THEN "generated" ELSE pc
    /\ idx' = idx + 1
    /\ UNCHANGED <<cfg, root, preset, features, isSymlinkFS, grp, counter,
                   entered, skipped>>

\* the loops are through: GenerateTestcases returns testcases and nil
GenerateReturn ==
    /\ pc = "generating"
    /\ idx = GenerationLen
    /\ pc' = "generated"
    /\ UNCHANGED <<cfg, root, preset, features, isSymlinkFS, grp, idx, counter,
                   entered, skipped, last>>

\* OsTestDir(path) or FsTestDir(fs, path) is called and returns
CallTestDir ==
    /\ pc = "testdir"
    /\ \E fn \in TestDirFunctions, mkdirErr \in {Nil, "EEXIST"},
          getwdErr \in {Nil, "ENOENT"}, chdirErr \in {Nil, "EACCES"} :
          last' = [case |-> fn, verdict |-> "none", b |-> Conforming,
                   store |-> BaseStore,
                   obs |-> TestDirCall(fn, mkdirErr, getwdErr, chdirErr)]
    /\ pc' = "returned"
    /\ UNCHANGED <<cfg, root, preset, features, isSymlinkFS, grp, idx, counter,
                   entered, skipped>>

\* the caller calls the cleanup it was given
CallCleanup ==
    /\ pc = "returned"
    /\ \E chdirErr \in {Nil, "ENOENT"}, removeAllErr \in {Nil, "EACCES"} :
          last' = [last EXCEPT
                     !.obs = TestDirCleanup(last.obs, chdirErr, removeAllErr)]
    /\ pc' = "cleaned"
    /\ UNCHANGED <<cfg, root, preset, features, isSymlinkFS, grp, idx, counter,
                   entered, skipped>>

\* FsTest is called with a testcase
CallFsTest ==
    /\ pc = "replay"
    /\ \E pre \in {""} \cup {preconditions[i] : i \in 1..Len(preconditions)},
          createErr \in {Nil, "EEXIST"}, mkdirErr \in {Nil, "EEXIST"},
          chmodErr \in {Nil, "EPERM"} :
          last' = [case |-> "FsTest", verdict |-> "none", b |-> Conforming,
                   store |-> BaseStore,
                   obs |-> FsTest(pre, createErr, mkdirErr, chmodErr)]
    /\ pc' = "replayed"
    /\ UNCHANGED <<cfg, root, preset, features, isSymlinkFS, grp, idx, counter,
                   entered, skipped>>

Next ==
    \/ Setup
    \/ RunGroup
    \/ Finish
    \/ CaseFileCreateAndRead
    \/ CaseSymCreateAndRead
    \/ CaseSymLstat
    \/ CaseSymRelativeSymlink
    \/ CaseSymSymlinkToDirectory
    \/ CaseSymBrokenSymlink
    \/ CaseSymSymlinkAlreadyExists
    \/ CaseSymCircularSymlinks
    \/ CaseSymSelfReferenceSymlink
    \/ CaseSymTwoNodeCycle
    \/ CaseSymRemoveSymlink
    \/ CaseSymReadThroughSymlink
    \/ CaseSymWriteThroughSymlink
    \/ CaseSymChainedSymlinks
    \/ CaseSymRenameSymlink
    \/ CaseSymSameDirRelativeSymlink
    \/ CasePermChmod
    \/ CaseTimeChtimes
    \/ FuzzReadWrite
    \/ TestOverlayBasic
    \/ TestOverlayRelativeSymlink
    \/ TestOverlayBrokenSymlink
    \/ TestOverlayCircularSymlink
    \/ TestOverlayRemoveSymlink
    \/ WrapperSetup
    \/ WrapperSkipGated
    \/ WrapperFinish
    \/ WrapperPassthrough
    \/ WrapperDataIntegrity
    \/ WrapperWriteBlocking
    \/ WrapperTransformRoundtrip
    \/ FuzzWrapperRoundtrip
    \/ CallCompareErrors
    \/ CaseFileRemove
    \/ CaseFileRename
    \/ CaseDirRemoveAll
    \/ CaseErrNotExist
    \/ QuickCheck
    \/ FuzzCreate
    \/ FuzzRename
    \/ FuzzMkdir
    \/ FuzzPathTraversal
    \/ FuzzWorkerCall
    \/ RunWithSkips
    \/ GenerateTestcases
    \/ GenerateNext
    \/ GenerateReturn
    \/ CallTestDir
    \/ CallCleanup
    \/ CallFsTest

Spec == Init /\ [][Next]_vars

-----------------------------------------------------------------------------
(* Properties *)

\* the groups whose cases were run: entered and not skipped
Executed == entered \ skipped

\* what lets the cases of gated group g run
Runs(g) == features[g] /\ (g = "Symlinks" => isSymlinkFS)

\* the cases of group g reported nothing
Silent(g) == \A i \in 1..Len(Cases(g)) : last.case # Cases(g)[i]

\* C1 as stated: a gated group executes if and only if its flag is true; it
\* neither executes nor reports when the flag is false, and has executed by
\* the time Run returns when the flag is true.
C1_FlagAloneDecides ==
    \A g \in GatedGroups :
        /\ ~features[g] => g \notin Executed /\ Silent(g)
        /\ (pc = "done" /\ features[g]) => g \in Executed

\* C1 amended: a gated group is entered only if its flag is true and reports
\* nothing otherwise; when Run returns, the groups whose cases have run are
\* exactly those whose flag is true, except that the Symlinks group has
\* skipped itself if the store does not implement SymlinkFileSystem.
C1_GateAndInterfaceDecide ==
    \A g \in GatedGroups :
        /\ g \in entered => features[g]
        /\ g \in Executed => Runs(g)
        /\ ~features[g] => Silent(g)
        /\ pc = "done" => (g \in Executed <=> Runs(g))
        /\ pc = "done" => (g \in skipped <=> (g = "Symlinks" /\ features[g] /\ ~isSymlinkFS))

\* a finished run with one group skipped for the missing interface, one
\* group run and one group gated off
C1_Witness ==
    /\ pc = "done"
    /\ features.Symlinks /\ ~isSymlinkFS /\ "Symlinks" \in skipped
    /\ features.Permissions /\ "Permissions" \in Executed
    /\ ~features.Timestamps /\ "Timestamps" \notin entered

\* C2: DefaultFeatures() has all eight flags true; MinimalFeatures() has
\* CaseSensitive true and every other flag false.
C2_Presets ==
    /\ preset = "DefaultFeatures" =>
          /\ \A f \in Flags : features[f]
          /\ countFeatures(features) = 8
    /\ preset = "MinimalFeatures" =>
          /\ features.CaseSensitive
          /\ \A f \in Flags \ {"CaseSensitive"} : ~features[f]

\* a run configured with MinimalFeatures() returned without entering a
\* gated group
C2_Witness ==
    /\ preset = "MinimalFeatures"
    /\ pc = "done"
    /\ entered \cap GatedGroups = {}

-----------------------------------------------------------------------------
(* Chains (C3) *)

Passed(name) == last.case = name /\ last.verdict = "pass"

\* a walk by candidate b from path from ends without error on path to
Reaches(b, st, from, to) == Walk(b, st, from, 0) = [err |-> Nil, path |-> to]

ChainLinks == <<"chain_link1", "chain_link2", "chain_link3", "chain_link4",
                "chain_link5", "chain_link6">>
ChainLink(i) == Join(testDir, <<ChainLinks[i]>>)
ChainTarget == Join(testDir, <<"chain_target.txt">>)

\* a store holding T <- L1 <- ... <- Lk, built as ChainedSymlinks builds its
\* two links
ChainStore(k) ==
    [p \in DOMAIN BaseStore \cup {ChainTarget} \cup {ChainLink(i) : i \in 1..k} |->
        IF p = ChainTarget THEN FileNode(Text("chained symlink content"))
        ELSE IF p \in DOMAIN BaseStore THEN BaseStore[p]
        ELSE LET i == CHOOSE j \in 1..k : ChainLink(j) = p
             IN LinkNode(AbsTarget(IF i = 1 THEN ChainTarget ELSE ChainLink(i - 1)))]

\* Stat and Open started at link j of a chain of k links observe T
FollowsFrom(b, k, j) ==
    LET st == ChainStore(k)
        s  == Stat(b, st, ChainLink(j))
        f  == Open(b, st, ChainLink(j))
    IN /\ s.err = Nil
       /\ s.info = Info(st, ChainTarget)
       /\ f.err = Nil
       /\ ReadAll(b, st, f.h) = [err |-> Nil, data |-> st[ChainTarget].data]

\* C3 as stated: a store that passes ChainedSymlinks follows every chain of
\* at most MaxChain links, from any of its links, to the final node.
C3_EveryChainUpToBound ==
    Passed("Sym/ChainedSymlinks") =>
        \A k \in 1..MaxChain : \A j \in 1..k : FollowsFrom(last.b, k, j)

\* C3 amended: for the chains the suite builds - one link to a directory
\* (SymlinkToDirectory), one link to a file (ReadThroughSymlink), two links
\* to a file (ChainedSymlinks) - a following operation started at the
\* outermost link succeeds and observes the final node: Stat reports the
\* directory, or a non-symlink after two links, and Open and ReadAll return
\* the file's content.
C3_SuiteChainsFollowed ==
    /\ Passed("Sym/SymlinkToDirectory") =>
          /\ last.obs.stat.err = Nil
          /\ last.obs.stat.info.isDir /\ ~last.obs.stat.info.symlink
    /\ Passed("Sym/ReadThroughSymlink") =>
          /\ last.obs.open.err = Nil
          /\ last.obs.read = [err |-> Nil, data |-> last.obs.content]
    /\ Passed("Sym/ChainedSymlinks") =>
          /\ last.obs.stat.err = Nil /\ ~last.obs.stat.info.symlink
          /\ last.obs.open.err = Nil
          /\ last.obs.read = [err |-> Nil, data |-> last.obs.content]
          /\ Reaches(last.b, last.store, ChainLink(last.obs.chain), ChainTarget)
          /\ FollowsFrom(last.b, last.obs.chain, last.obs.chain)

\* ChainedSymlinks passed on a store that follows exactly two links
C3_Witness ==
    /\ Passed("Sym/ChainedSymlinks")
    /\ last.b.followDepth = 2
    /\ last.obs.chain = 2
    /\ last.store = ChainStore(2)

-----------------------------------------------------------------------------
(* Cycles (C4), one-step operations (C5), broken links (C6) *)

LoopCases == {"Sym/SelfReferenceSymlink", "Sym/TwoNodeCycle",
              "Overlay/CircularSymlink"}

\* the links of a store that lie on a cycle
CycleNodes(st) ==
    {p \in DOMAIN st : st[p].kind = "symlink"
                       /\ Walk(Conforming, st, p, 0).err = "ELOOP"}

\* C4: on a self-referencing link and on a two-node cycle, a store that
\* passes the case answers Lstat and Readlink on either node without error
\* and fails Stat on either node with the too-many-links error.
C4_CycleFailsWithTooManyLinks ==
    (last.case \in LoopCases /\ last.verdict = "pass") =>
        \A n \in CycleNodes(last.store) :
            /\ Lstat(last.b, last.store, n).err = Nil
            /\ Readlink(last.b, last.store, n).err = Nil
            /\ Stat(last.b, last.store, n).err = "ELOOP"

ReadlinkCases == {"Sym/CreateAndRead", "Sym/RelativeSymlink",
                  "Sym/BrokenSymlink", "Sym/CircularSymlinks",
                  "Sym/ChainedSymlinks", "Sym/SameDirRelativeSymlink"}

LstatCases == {"Sym/Lstat", "Sym/SymlinkToDirectory", "Sym/BrokenSymlink",
               "Sym/CircularSymlinks", "Sym/SelfReferenceSymlink",
               "Sym/TwoNodeCycle", "Sym/ChainedSymlinks",
               "Overlay/BrokenSymlink"}

BrokenCases == {"Sym/BrokenSymlink", "Overlay/BrokenSymlink"}

\* the links of a store whose target is missing
BrokenLinks(st) ==
    {p \in DOMAIN st : st[p].kind = "symlink"
                       /\ Walk(Conforming, st, p, 0).err = "ENOENT"}

\* C6 as stated: on a broken link, a store that passes the case fails Stat
\* and Open with the not-found error of the missing target.
C6_BrokenFailsWithNotFound ==
    (last.case \in BrokenCases /\ last.verdict = "pass") =>
        \A n \in BrokenLinks(last.store) :
            /\ Lstat(last.b, last.store, n).err = Nil
            /\ Stat(last.b, last.store, n).err = "ENOENT"
            /\ Open(last.b, last.store, n).err = "ENOENT"

\* C6 amended: on a broken link, Symlink and Lstat succeed, Lstat reports
\* symlink type, Readlink (suite case) returns the target as passed, and
\* Stat fails with some error; the kind of error is not examined and Open
\* and Read are not attempted.
C6_BrokenStatFails ==
    (last.case \in BrokenCases /\ last.verdict = "pass") =>
        /\ BrokenLinks(last.store) # {}
        /\ last.obs.lstat.err = Nil /\ last.obs.lstat.info.symlink
        /\ last.obs.stat.err # Nil
        /\ last.case = "Sym/BrokenSymlink" =>
              last.obs.readlink = [err |-> Nil, target |-> last.obs.passed]

\* BrokenSymlink passed on a store whose Stat fails with an error other
\* than not-found
C6_Witness ==
    /\ Passed("Sym/BrokenSymlink")
    /\ last.obs.stat.err = "EIO"
    /\ last.b.failOp = "none"

-----------------------------------------------------------------------------
(* Relative targets (C7), Remove and Rename on a link (C8, C9) *)

\* join(D, R) for the link at D/name with relative target R
Resolved(link, rel) == Join(Dir(link), rel.segs)

\* walking from the link of the case just run ends on join(D, R)
FollowReachesJoin ==
    Reaches(last.b, last.store, last.obs.link,
            Resolved(last.obs.link, last.obs.passed))

\* C7 as stated: both suite cases with a relative target, the bare filename
\* and ../name, pass only on a store that follows the link to join(D, R).
C7_BothFormsFollowed ==
    (last.case \in {"Sym/RelativeSymlink", "Sym/SameDirRelativeSymlink"}
     /\ last.verdict = "pass") =>
        /\ ~last.obs.passed.abs
        /\ FollowReachesJoin

\* C7 amended: SameDirRelativeSymlink checks that Readlink returns the bare
\* filename and that Stat on the link succeeds and does not report a
\* directory, so a store whose Stat follows links passes only if it reaches
\* join(D, R); RelativeSymlink (../name) checks only that Readlink returns
\* the relative string; following through ../name is checked only by
\* TestExtendSymlinkFiler_RelativeSymlink, which reads join(D, R)'s content
\* through the link.
C7_SameDirFollowedParentRead ==
    /\ Passed("Sym/SameDirRelativeSymlink") =>
          /\ last.obs.readlink = [err |-> Nil, target |-> last.obs.passed]
          /\ last.obs.stat.err = Nil /\ ~last.obs.stat.info.isDir
          /\ ~last.obs.stat.info.symlink => FollowReachesJoin
    /\ Passed("Sym/RelativeSymlink") =>
          last.obs.readlink = [err |-> Nil, target |-> last.obs.passed]
    /\ Passed("Overlay/RelativeSymlink") =>
          /\ last.obs.read = [err |-> Nil, data |-> last.obs.content]
          /\ FollowReachesJoin

\* SameDirRelativeSymlink passed with Stat reporting the target file
C7_Witness ==
    /\ Passed("Sym/SameDirRelativeSymlink")
    /\ ~last.obs.stat.info.symlink
    /\ last.obs.passed = RelTarget(<<"same_dir_target.txt">>)
    /\ Resolved(last.obs.link, last.obs.passed)
          = Join(testDir, <<"same_dir_target.txt">>)

RemoveCases == {"Sym/RemoveSymlink", "Overlay/RemoveSymlink"}

\* the paths of a store that are not symlinks and hold data
FilesOf(st) == {p \in DOMAIN st : st[p].kind = "file"}

\* the symlinks of a store
LinksOf(st) == {p \in DOMAIN st : st[p].kind = "symlink"}

\* C8 as stated: after Remove(link) in a case that passes, the link is gone
\* and the target exists with the content it had before.
C8_OnlyLinkRemoved ==
    (last.case \in RemoveCases /\ last.verdict = "pass") =>
        /\ \A l \in LinksOf(last.obs.before) : ~Has(last.store, l)
        /\ \A t \in FilesOf(last.obs.before) :
              Has(last.store, t) /\ last.store[t] = last.obs.before[t]

\* C8 amended: after Remove(link), the suite's RemoveSymlink checks that
\* Lstat(link) fails and that Stat(target) succeeds, not the target's
\* content; TestExtendSymlinkFiler_RemoveSymlink checks that the target
\* still reads back its content, not that the link is gone.
C8_LinkGoneTargetExists ==
    /\ Passed("Sym/RemoveSymlink") =>
          /\ last.obs.lstat.err # Nil
          /\ last.obs.stat.err = Nil
          /\ \A t \in FilesOf(last.obs.before) : Has(last.store, t)
    /\ Passed("Overlay/RemoveSymlink") =>
          /\ last.obs.read = [err |-> Nil, data |-> last.obs.content]
          /\ \A t \in FilesOf(last.obs.before) :
                Has(last.store, t) /\ last.store[t] = last.obs.before[t]

\* RemoveSymlink passed after a Remove that took the link away and left
\* the target as it was
C8_Witness ==
    /\ Passed("Sym/RemoveSymlink")
    /\ last.b.remove = "link"
    /\ LinksOf(last.obs.before) # {} /\ LinksOf(last.store) = {}
    /\ \E t \in FilesOf(last.obs.before) : last.store[t] = last.obs.before[t]

RenameOld == Join(testDir, <<"rename_sym_link">>)
RenameNew == Join(testDir, <<"rename_sym_link_new">>)

\* C9 as stated: after Rename(link, newLink) in a case that passes, the old
\* path is gone, the new path is a symlink, and the target is at its path
\* unchanged.
C9_LinkMovedTargetUnchanged ==
    Passed("Sym/RenameSymlink") =>
        /\ ~Has(last.store, RenameOld)
        /\ Has(last.store, RenameNew) /\ last.store[RenameNew].kind = "symlink"
        /\ \A t \in FilesOf(last.obs.before) :
              Has(last.store, t) /\ last.store[t] = last.obs.before[t]

\* C9 amended: after Rename(link, newLink), Lstat(link) fails, Lstat(newLink)
\* succeeds and reports symlink type, and Stat on the target's original path
\* succeeds; the target's content is not examined.
C9_LinkMovedTargetExists ==
    Passed("Sym/RenameSymlink") =>
        /\ last.obs.lstatOld.err # Nil
        /\ last.obs.lstatNew.err = Nil /\ last.obs.lstatNew.info.symlink
        /\ last.obs.stat.err = Nil
        /\ ~Has(last.store, RenameOld)
        /\ Has(last.store, RenameNew) /\ last.store[RenameNew].kind = "symlink"
        /\ \A t \in FilesOf(last.obs.before) : Has(last.store, t)

\* RenameSymlink passed after a Rename that moved the link node itself
C9_Witness ==
    /\ Passed("Sym/RenameSymlink")
    /\ last.b.rename = "link"
    /\ Has(last.obs.before, RenameOld)
    /\ last.store[RenameNew] = last.obs.before[RenameOld]

-----------------------------------------------------------------------------
(* Write and read back (C10) *)

RoundTripCases == {"CreateAndRead", "FuzzReadWrite"}

\* the case wrote its payload without error and went on to read it back
ReadBack == "content" \in DOMAIN last.obs

\* C10: in CreateAndRead and in every FuzzReadWrite iteration that passes
\* after a Write without error, Write reported len(P) bytes and reopening
\* and reading to the end returned exactly P - for the empty payload and
\* for payloads up to and past a chunk boundary alike.
C10_RoundTrip ==
    (last.case \in RoundTripCases /\ last.verdict = "pass" /\ ReadBack) =>
        /\ last.obs.n = Len(last.obs.content)
        /\ last.obs.read = [err |-> Nil, data |-> last.obs.content]

\* a FuzzReadWrite iteration passed on a payload one byte past a chunk
C10_Witness ==
    /\ Passed("FuzzReadWrite")
    /\ ReadBack
    /\ Len(last.obs.content) = ChunkSize + 1
    /\ last.obs.read.data = last.obs.content

-----------------------------------------------------------------------------
(* Wrappers *)

\* the tests that write a payload through the wrapper and read it back
\* through the wrapper
WrapperRoundTrips ==
    {"Wrapper/TransformRoundtrip", "FuzzWrapperRoundtrip"} \cup
    {WrapperCases[i] : i \in 2..6}

\* C11: whenever TransformRoundtrip, a DataIntegrity subtest or a
\* FuzzWrapperRoundtrip iteration passes after writing payload P through the
\* wrapper, the bytes read back through the wrapper are exactly P, whatever
\* bytes the base holds for the file; the bytes of the base take no part in
\* the verdict.
C11_WrapperRoundTrip ==
    (last.case \in WrapperRoundTrips /\ ReadBack) =>
        /\ last.verdict \in {"pass", "fail"}
        /\ last.verdict = "pass" => last.obs.read.data = last.obs.content

\* TransformRoundtrip passed on a wrapper declared as transforming whose
\* base held other bytes than the payload
C11_Witness ==
    /\ Passed("Wrapper/TransformRoundtrip")
    /\ cfg.TransformsData
    /\ last.obs.raw # last.obs.content
    /\ last.obs.read.data = last.obs.content

\* C12 as stated: when WriteBlocking passes on a wrapper declared read-only,
\* Create, Mkdir and Remove each returned an error and the base is as it was
\* before the three calls.
C12_BlockedAndUnchanged ==
    Passed("Wrapper/WriteBlocking") =>
        /\ last.obs.create # Nil
        /\ last.obs.mkdir # Nil
        /\ last.obs.remove # Nil
        /\ last.store = last.obs.before

\* C12: when WriteBlocking passes on a wrapper declared read-only, each of
\* Create, Mkdir and Remove through the wrapper returned an error; the state
\* after the calls is not examined.
C12_MutatingCallsFail ==
    Passed("Wrapper/WriteBlocking") =>
        /\ cfg.ReadOnly
        /\ last.obs.create # Nil
        /\ last.obs.mkdir # Nil
        /\ last.obs.remove # Nil

\* WriteBlocking passed on a wrapper that refused all three calls and left
\* the base alone
C12_Witness ==
    /\ Passed("Wrapper/WriteBlocking")
    /\ last.b.create = "block" /\ last.b.mkdir = "block"
    /\ last.b.remove = "block"
    /\ last.store = last.obs.before

\* what a caller sees of the calls of testPassthrough on layer w
PassthroughSeen(w) == [PassthroughCalls(w) EXCEPT !.store = <<>>]

\* C13 as stated: when Passthrough passes, every call of the test returned
\* through the wrapper what it returns on the store without a wrapper.
C13_SameAsUnwrapped ==
    Passed("Wrapper/Passthrough") =>
        PassthroughSeen(last.b) = PassthroughSeen(Transparent)

\* C13: when Passthrough passes on a wrapper not declared read-only, Create,
\* Open, Stat and Remove returned no error, the bytes read back equal the
\* bytes written and Stat reported a non-directory.
C13_PassthroughChecked ==
    Passed("Wrapper/Passthrough") =>
        /\ ~cfg.ReadOnly
        /\ last.obs.create = Nil /\ last.obs.open = Nil
        /\ last.obs.read.data = last.obs.content
        /\ last.obs.stat.err = Nil /\ ~last.obs.stat.info.isDir
        /\ last.obs.remove = Nil

\* Passthrough passed on a wrapper that keeps other bytes in the base than
\* were written
C13_Witness ==
    /\ Passed("Wrapper/Passthrough")
    /\ last.b.codec = "invert"
    /\ last.obs.read.data = PassthroughContent

-----------------------------------------------------------------------------
(* Errors *)

\* C14: CompareErrors returns nil exactly when the two errors are of the
\* same kind: two errors of one kind that differ only in path, operation or
\* message compare as equivalent, and errors of different kinds compare as
\* different.
C14_EquivalentIffSameKind ==
    last.case = "CompareErrors" =>
        (last.verdict = "nil") =
            (ErrorKind(last.obs.err1) = ErrorKind(last.obs.err2))

\* the cases that look at a path that is not, or no longer, there
MissingCases == {"Remove", "Rename", "RemoveAll", "NotExist"}

\* C15: whenever NotExist, Remove, Rename or RemoveAll passes, the error
\* Stat returned for the path that was never created, or was removed,
\* renamed away or removed with its tree, is a not-exist error, and so is
\* the error Open returned for the path that was never created.
C15_MissingIsNotExist ==
    (last.case \in MissingCases /\ last.verdict = "pass") =>
        /\ IsNotExist(last.obs.stat)
        /\ last.case = "NotExist" => IsNotExist(last.obs.open)

\* RemoveAll passed: the tree is gone from the store and Stat on its top
\* reported a not-exist error
C15_Witness ==
    /\ Passed("RemoveAll")
    /\ \A q \in DOMAIN last.store : ~Under(q, last.obs.path)
    /\ IsNotExist(last.obs.stat)

-----------------------------------------------------------------------------
(* Failures stay in their case *)

\* the cases Suite.Run registers
SuiteCases ==
    UNION {{Cases(Groups[g])[i] : i \in 1..Len(Cases(Groups[g]))} :
              g \in 1..Len(Groups)}

\* C16: a mismatch in one case, an operation of the store returning an
\* error where the case expected success included, is reported for that case
\* and the run goes on to the remaining cases and groups: a run stops before
\* its end only when its root directory could not be made, never in or after
\* a case.
C16_MismatchNeverAborts ==
    pc = "aborted" => last.case \notin SuiteCases

-----------------------------------------------------------------------------
(* The per-run root *)

\* the directory the configuration asks the root to be made in
RootParent == IF cfg.TestDir = <<>> THEN TempDir ELSE cfg.TestDir

\* C17: in a run of Suite.Run and in a run of Suite.QuickCheck the root is
\* made once, before any group is entered, under Suite.TestDir when that is
\* set and under FS.TempDir() otherwise; when the run has ended the root has
\* been removed with all below it unless KeepTestDir is set, and then it is
\* left in place.
C17_RootLifecycle ==
    /\ root.made <= 1
    /\ entered # {} => root.made = 1
    /\ root.made = 1 => Dir(root.path) = RootParent
    /\ pc \in {"done", "checked"} =>
          /\ root.made = 1
          /\ root.removed = ~cfg.KeepTestDir

-----------------------------------------------------------------------------
(* Fuzz drivers that take paths *)

PathFuzzers == {"FuzzCreate", "FuzzRename", "FuzzMkdir", "FuzzPathTraversal"}

\* some name of the iteration's input holds a NUL byte
InputHasNul == \E i \in 1..Len(last.obs.input) : HasNul(last.obs.input[i])

\* some name of the iteration's input is not valid UTF-8
InputBadlyEncoded ==
    \E i \in 1..Len(last.obs.input) : ~ValidString(last.obs.input[i])

\* C18 as stated: in each of the four drivers an input with a NUL byte or
\* an invalid encoding reaches no store operation.
C18_NulAndBadEncodingSkipped ==
    (last.case \in PathFuzzers /\ (InputHasNul \/ InputBadlyEncoded)) =>
        last.obs.calls = {}

\* C18: in each of the four drivers an input with a NUL byte reaches no
\* store operation; an input that is not valid UTF-8 reaches none in
\* FuzzCreate.
C18_NulSkipped ==
    /\ (last.case \in PathFuzzers /\ InputHasNul) => last.obs.calls = {}
    /\ (last.case = "FuzzCreate" /\ InputBadlyEncoded) => last.obs.calls = {}

\* a FuzzMkdir iteration returned at once on a name with a NUL byte after
\* a plain component
C18_Witness ==
    /\ last.case = "FuzzMkdir"
    /\ last.obs.input = <<(<<"a", "nul">>)>>
    /\ last.obs.calls = {}
    /\ last.verdict = "pass"

\* C19: whenever an iteration of FuzzPathTraversal, or an iteration of
\* FuzzCreate that reached Create, ends without a reported failure, every
\* operation it issued either returned an error or was given a path inside
\* the test root.
C19_EscapeNeverUndetected ==
    /\ (last.case = "FuzzPathTraversal" /\ last.verdict = "pass"
            /\ "path" \in DOMAIN last.obs) =>
          \/ Under(last.obs.path, testDir)
          \/ last.obs.stat # Nil /\ last.obs.open # Nil /\ last.obs.mkdir # Nil
    /\ (last.case = "FuzzCreate" /\ last.verdict = "pass"
            /\ "create" \in DOMAIN last.obs) =>
          \/ Under(last.obs.path, testDir)
          \/ last.obs.create # Nil

\* the rename checks, and whether the last one got past Rename
RenameChecks == {"FuzzRename", "Rename"}
Renamed == "stat" \in DOMAIN last.obs

\* C20: whenever FuzzRename, on a pair of names it does not skip, or the
\* suite's Rename case passes after Rename returned no error, Stat on the
\* old path reported a not-exist error and the bytes read from the new path
\* are the bytes that were written to the old path.
C20_RenameMoves ==
    (last.case \in RenameChecks /\ last.verdict = "pass" /\ Renamed) =>
        /\ IsNotExist(last.obs.stat)
        /\ last.obs.read.data = last.obs.written

\* a FuzzRename iteration passed after moving a file into a subdirectory:
\* the old path is gone from the store
C20_Witness ==
    /\ Passed("FuzzRename")
    /\ Renamed
    /\ last.obs.input = <<(<<"a", "b">>), (<<"b">>)>>
    /\ IsNotExist(last.obs.stat)
    /\ last.obs.read.data = last.obs.written

-----------------------------------------------------------------------------
(* Paths of groups and fuzz iterations *)

\* the calls of the counting driver's fuzz target made so far by the workers
WorkerCalls == CallsOf(last.case, last.obs.counters)

\* the state is one of workers calling a counting driver's fuzz target
AtWorkers == pc = "workers" /\ last.case \in CountingDrivers

\* C21 as stated: no two calls of a fuzz target, in one worker or in two,
\* work on the same path.
C21_DistinctPaths ==
    AtWorkers =>
        \A x \in WorkerCalls, y \in WorkerCalls : x # y => x.path # y.path

\* C21: two calls of the fuzz target of FuzzReadWrite, or of
\* FuzzWrapperRoundtrip, work on the same file exactly when their counter
\* values are congruent modulo 26, whether they run in one worker or in two:
\* calls fewer than 26 apart in one worker have distinct files.
C21_SamePathIffCongruent ==
    AtWorkers =>
        \A x \in WorkerCalls, y \in WorkerCalls :
            (x.path = y.path) = (x.iter % 26 = y.iter % 26)

\* a worker has come round the alphabet: its first and its 27th call work
\* on the same file
C21_Witness ==
    /\ AtWorkers
    /\ \E x \in WorkerCalls, y \in WorkerCalls :
          /\ x.worker = y.worker
          /\ x.iter = 1 /\ y.iter = 27
          /\ x.path = y.path

-----------------------------------------------------------------------------
(* RunWithSkips *)

\* is group g named, in any case of letters, by RunWithSkips's arguments
Named(g) == ToLower(g) \in SkipMap(cfg.Skips)

\* C22: a group named in RunWithSkips's arguments, compared without regard to
\* case, is not executed: t.Run is not called for it and none of its cases
\* runs.
C22_NamedTestsSkipped ==
    \A i \in 1..Len(Groups) :
        Named(Groups[i]) =>
            /\ Groups[i] \notin entered
            /\ ~(pc = "cases" /\ grp = i)

-----------------------------------------------------------------------------
(* WrapperSuite.Run's setup *)

\* WrapperSuite.Run has gone through its setup
WrapperSetUp == last.case = "Wrapper/Setup"

\* C23: when BaseFS is nil, WrapperSuite.Run makes a base of its own and
\* goes on to its tests, provided Factory and MkdirAll return no error.
C23_NilBaseReplaced ==
    (WrapperSetUp /\ last.obs.baseNil /\ last.obs.factoryErr = Nil
        /\ last.obs.mkdir = Nil) => pc = "wcases"

-----------------------------------------------------------------------------
(* QuickCheck's cycle *)

\* the calls of QuickCheck on the store between the making and the removal
\* of its root
QuickSteps == <<"Create", "Write", "Open", "ReadAll", "Remove", "Stat">>

\* did the last call QuickCheck made return what QuickCheck requires
QuickLastStepFine ==
    LET step == last.obs.steps[Len(last.obs.steps)]
    IN CASE step = "Create"  -> last.obs.create = Nil
         [] step = "Open"    -> last.obs.open = Nil
         [] step = "ReadAll" -> last.obs.read = last.obs.written
         [] step = "Remove"  -> last.obs.remove = Nil
         [] OTHER            -> IsNotExist(last.obs.stat)

-----------------------------------------------------------------------------
(* C25: writing and reading through a link *)

WroteThrough == last.case = "Sym/WriteThroughSymlink" /\ last.verdict = "pass"
ReadThrough == last.case = "Sym/ReadThroughSymlink" /\ last.verdict = "pass"
BasicPassed == last.case = "Overlay/Basic" /\ last.verdict = "pass"

\* C25 as stated: when the cases pass, the bytes written through the link are
\* what the target path returns, a read through the link returns the target's
\* content, and the link is still a symlink afterwards.
C25_LinkRemainsSymlink ==
    /\ WroteThrough =>
          /\ last.obs.read.data = last.obs.content
          /\ last.store[last.obs.link].kind = "symlink"
    /\ ReadThrough =>
          /\ last.obs.read.data = last.obs.content
          /\ last.store[last.obs.open.h].data = last.obs.content

\* C25 amended: when WriteThroughSymlink passes, the target path returns
\* exactly the bytes written through the link; when ReadThroughSymlink or
\* TestExtendSymlinkFiler_Basic passes, the read through the link returned
\* exactly the content written to the target; Basic alone looks at the link
\* afterwards (Lstat reports a symlink), and it has only read through it.
C25_ThroughLinkContent ==
    /\ WroteThrough => last.obs.read.data = last.obs.content
    /\ ReadThrough =>
          /\ last.obs.read.data = last.obs.content
          /\ last.store[last.obs.open.h].data = last.obs.content
    /\ BasicPassed =>
          /\ last.obs.read.data = last.obs.content
          /\ last.obs.lstat.info.symlink
          /\ last.store[last.obs.link].kind = "symlink"

\* WriteThroughSymlink passed on a store that turned the link into a file
C25_Witness ==
    /\ WroteThrough
    /\ last.b.openWrite = "materialise"
    /\ last.store[last.obs.link].kind = "file"

C25_WitnessBasic == BasicPassed /\ last.b.failOp = "none"


-----------------------------------------------------------------------------
(* C26: WrapperSuite.Run on a wrapper that rejects every mutating call *)

\* Run's setup on a read-only wrapper whose MkdirAll is rejected
RejectedSetup ==
    /\ WrapperSetUp
    /\ cfg.ReadOnly
    /\ ~last.obs.baseNil
    /\ last.obs.factoryErr = Nil
    /\ last.b.mkdir = "block"

\* C26 as stated: on a read-only wrapper that rejects every mutating call,
\* the MkdirAll of the test directory included, Run goes on to its tests
\* (and so to WriteBlocking) instead of ending in setup, and Passthrough and
\* DataIntegrity end as skipped without having changed the store.
C26_ReadOnlyReachesWriteBlocking ==
    /\ RejectedSetup => pc = "wcases"
    /\ (/\ cfg.ReadOnly
        /\ last.case \in {WrapperCases[i] : i \in 1..(Len(IntegrityNames) + 1)})
          => (last.verdict = "skip" /\ last.store = WrapperBase)


-----------------------------------------------------------------------------
(* C27: GenerateTestcases and its callback *)

Generating == last.case = "GenerateTestcases"

\* the numbers 0 .. n-1 in order
Counting(n) == [i \in 1..n |-> i - 1]

\* the fixtures the first n passes create when none fails
FixturesOf(n) ==
    Cardinality({i \in 0..(n - 1) : GenerationAt(i).condition # "notcreated"})

\* C27: fn is called once per generated testcase, in generation order, with
\* TestNo 0, 1, 2, ...; once fn has returned an error the generation is over:
\* that call is the last one, no fixture was created and no file opened
\* after it, and GenerateTestcases returns that error with the testcases
\* appended before it.
C27_CallbackStopsGeneration ==
    Generating =>
        LET o == last.obs
            n == Len(o.calls)
        IN /\ o.calls = Counting(n)
           /\ o.opens = n
           /\ \A i \in 1..n : o.results[i] # Nil => i = n
           /\ \A i \in 1..Len(o.testcases) :
                 o.testcases[i] = NewTestcase(i - 1, GenerationAt(i - 1))
           /\ (n > 0 /\ o.results[n] # Nil) =>
                 /\ pc = "generated"
                 /\ o.err = o.results[n]
                 /\ Len(o.testcases) = n - 1
                 /\ o.fixtures = FixturesOf(n)
           /\ (n > 0 /\ o.results[n] = Nil) => Len(o.testcases) = n

\* fn stopped the generation at its third testcase
C27_Witness ==
    /\ Generating
    /\ pc = "generated"
    /\ last.obs.err = "stop"
    /\ Len(last.obs.calls) = 3
    /\ Len(last.obs.testcases) = 2


-----------------------------------------------------------------------------
(* C28: the cleanup returned by OsTestDir and FsTestDir *)

\* the returned cleanup has been called and its own calls did not fail
CleanedUp ==
    /\ last.case \in TestDirFunctions
    /\ last.obs.cleaned
    /\ last.obs.chdirBack = Nil
    /\ last.obs.removeAll = Nil

\* C28 as stated: on every return path on which the test directory was
\* created, the cleanup puts the working directory back and removes the test
\* directory; when the directory was not created, the cleanup does nothing.
C28_CleanupUndoesCreation ==
    CleanedUp =>
        /\ last.obs.created => (last.obs.cwd = "start" /\ ~last.obs.exists)
        /\ ~last.obs.created => (last.obs.cwd = "start" /\ ~last.obs.exists
                                 /\ ~last.obs.panicked)


-----------------------------------------------------------------------------
(* C29: the file system FsTest works on *)

\* C29 as stated: every call FsTest makes, for the fixture of the
\* precondition and for the open, write, read and close of the testcase, is
\* issued to the absfs.FileSystem it was given, none to the host.
C29_EveryCallOnFs ==
    last.case = "FsTest" =>
        \A i \in 1..Len(last.obs.ops) : last.obs.ops[i].on = "fs"


-----------------------------------------------------------------------------
(* C30: CompareErrors as a relation *)

\* C30 as stated: CompareErrors returns for every pair of errors, a nil
\* first or second one included; an error compared with itself gives nil;
\* and the result for (e1, e2) is nil exactly when it is for (e2, e1).
C30_TotalReflexiveSymmetric ==
    last.case = "CompareErrors" =>
        /\ last.verdict \in {"nil", "differ"}
        /\ CompareErrors(last.obs.err1, last.obs.err1) = "nil"
        /\ (last.verdict = "nil") =
               (CompareErrors(last.obs.err2, last.obs.err1) = "nil")

====
